---- MODULE Spec2Model ----
(***************************************************************************)
(* Model of the memory-bot core: the token counter (core/utils), the       *)
(* markdown parser, FTS5 memory store and indexer (core/memory), the       *)
(* context builder and the session store (core/session).                   *)
(*                                                                         *)
(* Texts are sequences of one-character strings.  The tiktoken encoding is *)
(* modelled as one token per character of a text; a role name is a text of *)
(* one symbol.                                                             *)
(***************************************************************************)
EXTENDS Integers, Sequences, FiniteSets, TLC

\* ------------------------------------------------------------------------
\* Bounds of the model
\* ------------------------------------------------------------------------
MaxMsgs == 3
MaxBudget == 33
MaxSeq == 3
MaxSessMsgs == 2
MaxClock == 1
MaxMsgId == 2

\* the session manager: message row ids of its store, generated session ids
MaxRowId == 3

MaxUuids == 1

\* the agent: messages of its sessions, entries it adds to the knowledge store
MaxChatMsgs == 4

MaxFacts == 1

\* lines of a parsed document
MaxLines == 4

\* the bots: session ids generated and messages held by the agent
MaxBotUuids == 3

MaxBotMsgs == 6

\* ------------------------------------------------------------------------
\* Generic helpers
\* ------------------------------------------------------------------------
SeqsUpTo(S, n) == UNION {[1..k -> S] : k \in 0..n}

Min(a, b) == IF a <= b THEN a ELSE b

Max(a, b) == IF a >= b THEN a ELSE b

RECURSIVE Flatten(_)
Flatten(ss) == IF ss = <<>> THEN <<>> ELSE Head(ss) \o Flatten(Tail(ss))

RECURSIVE SumSeq(_)
SumSeq(ns) == IF ns = <<>> THEN 0 ELSE Head(ns) + SumSeq(Tail(ns))

Range(s) == {s[i] : i \in DOMAIN s}

\* ------------------------------------------------------------------------
\* Characters
\* ------------------------------------------------------------------------
\* "^A" stands for a control character (ord < 32) other than tab, newline
\* and carriage return.
CtrlChars == {"^A"}

WhiteSpace == {" ", "\n", "\t", "\r"}

\* characters the unicode61 tokenizer treats as token characters
WordChars ==
    {"a", "b", "c", "d", "e", "f", "g", "k", "l", "n", "o", "r", "s", "t", "u", "w", "x",
     "F", "K", "U", "U+6211", "U+662F"}

\* ------------------------------------------------------------------------
\* core/utils: TokenCounter
\* ------------------------------------------------------------------------
TokensPerMessage == 3

ReplyPriming == 3

count_tokens(text) == IF text = <<>> THEN 0 ELSE Len(text)

count_message(message) ==
    TokensPerMessage + count_tokens(message.role) + count_tokens(message.content)

count_messages(messages) ==
    IF messages = <<>> THEN 0
    ELSE SumSeq([i \in 1..Len(messages) |-> count_message(messages[i])]) + ReplyPriming

\* kw in text
Contains(text, kw) ==
    \E i \in 1..(Len(text) - Len(kw) + 1) : SubSeq(text, i, i + Len(kw) - 1) = kw

\* str.lower() on the letters of the model
Lower(text) ==
    [i \in 1..Len(text) |->
        CASE text[i] = "F" -> "f" [] text[i] = "K" -> "k" [] text[i] = "U" -> "u"
          [] OTHER -> text[i]]

\* TokenCounter._get_encoding: the encoding a model name selects
EncCl100k == "cl100k_base"

EncP50k == "p50k_base"

EncR50k == "r50k_base"

get_encoding(model) ==
    LET model_lower == Lower(model)
    IN  IF Contains(model_lower, <<"gpt-4">>) \/ Contains(model_lower, <<"gpt-3.5-turbo">>)
        THEN EncCl100k
        ELSE IF Contains(model_lower, <<"davinci">>) \/ Contains(model_lower, <<"curie">>)
        THEN EncP50k
        ELSE IF Contains(model_lower, <<"gpt-2">>)
        THEN EncR50k
        ELSE EncCl100k

\* encoding.encode: cl100k_base has one token for every character of the
\* model; the two older encodings need two tokens for a CJK character
WideChars == {"U+6211"}

encode_len(encoding, text) ==
    SumSeq([i \in 1..Len(text) |->
               IF encoding # EncCl100k /\ text[i] \in WideChars THEN 2 ELSE 1])

\* TokenCounter.count_tokens and count_messages of a counter holding the
\* given encoding
count_tokens_in(encoding, text) == IF text = <<>> THEN 0 ELSE encode_len(encoding, text)

count_messages_in(encoding, messages) ==
    IF messages = <<>> THEN 0
    ELSE SumSeq([i \in 1..Len(messages) |->
                    TokensPerMessage + count_tokens_in(encoding, messages[i].role)
                        + count_tokens_in(encoding, messages[i].content)])
         + ReplyPriming

\* the module's singleton: None until the first get_token_counter
NoCounter == ""

DefaultModel == <<"gpt-4">>

get_token_counter(counter, model) ==
    IF counter = NoCounter THEN get_encoding(model) ELSE counter

\* the module-level count_tokens(text, model) and count_messages(messages,
\* model): the value returned and the singleton afterwards
module_count_tokens(counter, text, model) ==
    [value   |-> count_tokens_in(get_token_counter(counter, model), text),
     counter |-> get_token_counter(counter, model)]

module_count_messages(counter, messages, model) ==
    [value   |-> count_messages_in(get_token_counter(counter, model), messages),
     counter |-> get_token_counter(counter, model)]

\* ------------------------------------------------------------------------
\* core/llm/models: Message
\* ------------------------------------------------------------------------
RoleSystem == <<"system">>

RoleUser == <<"user">>

RoleAssistant == <<"assistant">>

EmptyMeta == {}

Message(role, content) == [role |-> role, content |-> content, metadata |-> EmptyMeta]

\* ------------------------------------------------------------------------
\* core/memory/database: query sanitization
\* ------------------------------------------------------------------------
QueryMaxChars == 200

SnippetChars == 200

LimitMin == 1

LimitMax == 100

DoubleQuotes(q) == Flatten([i \in 1..Len(q) |-> IF q[i] = "\"" THEN <<"\"", "\"">> ELSE <<q[i]>>])

sanitize_fts_query(query) ==
    IF query = <<>> THEN <<>>
    ELSE LET noCtrl == SelectSeq(query, LAMBDA c : c \notin CtrlChars)
             cut    == SubSeq(noCtrl, 1, Min(Len(noCtrl), QueryMaxChars))
             noQm   == SelectSeq(cut, LAMBDA c : c # "?")
         IN  DoubleQuotes(noQm)

\* ------------------------------------------------------------------------
\* SQLite FTS5 as used by MemoryDatabase.search: tokenizer, query grammar,
\* MATCH
\* ------------------------------------------------------------------------
\* tokenize='porter unicode61': maximal runs of token characters; the porter
\* stemmer leaves the words of this alphabet unchanged.
RECURSIVE unicode61(_, _, _)
unicode61(s, i, cur) ==
    IF i > Len(s) THEN (IF cur = <<>> THEN <<>> ELSE <<cur>>)
    ELSE IF s[i] \in WordChars THEN unicode61(s, i + 1, Append(cur, s[i]))
    ELSE (IF cur = <<>> THEN <<>> ELSE <<cur>>) \o unicode61(s, i + 1, <<>>)

\* a quoted string of the query grammar, scanned from the character after
\* the opening quote; "" inside the string is an escaped quote
RECURSIVE fts5String(_, _, _)
fts5String(s, j, inner) ==
    IF j > Len(s) THEN [ok |-> FALSE, next |-> j, inner |-> inner]
    ELSE IF s[j] = "\""
         THEN IF j + 1 <= Len(s) /\ s[j + 1] = "\""
              THEN fts5String(s, j + 2, Append(inner, "\""))
              ELSE [ok |-> TRUE, next |-> j + 1, inner |-> inner]
         ELSE fts5String(s, j + 1, Append(inner, s[j]))

RECURSIVE fts5BarewordEnd(_, _)
fts5BarewordEnd(s, j) ==
    IF j <= Len(s) /\ s[j] \in WordChars THEN fts5BarewordEnd(s, j + 1) ELSE j

\* the token stream of a query expression; a character that starts no token
\* and an unterminated string give an ERR token
RECURSIVE fts5Tokens(_, _)
fts5Tokens(s, i) ==
    IF i > Len(s) THEN <<>>
    ELSE IF s[i] \in WhiteSpace THEN fts5Tokens(s, i + 1)
    ELSE IF s[i] = "*"
         THEN <<[type |-> "STAR", terms |-> <<>>]>> \o fts5Tokens(s, i + 1)
    ELSE IF s[i] = "\""
         THEN LET r == fts5String(s, i + 1, <<>>)
              IN  IF r.ok
                  THEN <<[type |-> "STRING", terms |-> unicode61(r.inner, 1, <<>>)]>>
                          \o fts5Tokens(s, r.next)
                  ELSE <<[type |-> "ERR", terms |-> <<>>]>>
    ELSE IF s[i] \in WordChars
         THEN LET e == fts5BarewordEnd(s, i)
              IN  <<[type |-> "STRING", terms |-> <<SubSeq(s, i, e - 1)>>]>>
                      \o fts5Tokens(s, e)
    ELSE <<[type |-> "ERR", terms |-> <<>>]>>

\* the query grammar restricted to this alphabet: a non-empty list of
\* phrases, each a string optionally followed by one '*'
fts5Parse(s) ==
    LET toks == fts5Tokens(s, 1)
        bad  == \/ toks = <<>>
                \/ \E k \in DOMAIN toks : toks[k].type = "ERR"
                \/ \E k \in DOMAIN toks :
                       /\ toks[k].type = "STAR"
                       /\ (k = 1 \/ toks[k - 1].type # "STRING")
        strs == {k \in DOMAIN toks : toks[k].type = "STRING"}
    IN  IF bad THEN [ok |-> FALSE, phrases |-> {}]
        ELSE [ok |-> TRUE,
              phrases |-> {[terms  |-> toks[k].terms,
                            prefix |-> k + 1 \in DOMAIN toks /\ toks[k + 1].type = "STAR"]
                           : k \in strs}]

IsPrefix(p, w) == Len(p) <= Len(w) /\ SubSeq(w, 1, Len(p)) = p

PhraseInColumn(ph, col) ==
    \E i \in 1..Len(col) :
        \A k \in 1..Len(ph.terms) :
            /\ i + k - 1 <= Len(col)
            /\ IF ph.prefix /\ k = Len(ph.terms)
               THEN IsPrefix(ph.terms[k], col[i + k - 1])
               ELSE col[i + k - 1] = ph.terms[k]

\* MATCH of a parsed query against one row of memories_fts
fts5Match(phrases, ftsRow) ==
    LET real == {ph \in phrases : ph.terms # <<>>}
        cols == {unicode61(ftsRow.content, 1, <<>>),
                 unicode61(ftsRow.section, 1, <<>>),
                 unicode61(ftsRow.tags, 1, <<>>)}
    IN  /\ real # {}
        /\ \A ph \in real : \E col \in cols : PhraseInColumn(ph, col)

\* ------------------------------------------------------------------------
\* json.dumps / json.loads of a tag list (a sequence of texts)
\* ------------------------------------------------------------------------
RECURSIVE json_dumps_items(_)
json_dumps_items(tags) ==
    IF tags = <<>> THEN <<>>
    ELSE <<"\"">> \o Head(tags) \o <<"\"">>
            \o (IF Tail(tags) = <<>> THEN <<>> ELSE <<",", " ">> \o json_dumps_items(Tail(tags)))

json_dumps_tags(tags) == <<"[">> \o json_dumps_items(tags) \o <<"]">>

\* the strings of a JSON list of strings: the texts between pairs of quotes
RECURSIVE json_loads_items(_, _, _, _)
json_loads_items(s, i, inStr, cur) ==
    IF i > Len(s) THEN <<>>
    ELSE IF s[i] = "\""
         THEN IF inStr THEN <<cur>> \o json_loads_items(s, i + 1, FALSE, <<>>)
              ELSE json_loads_items(s, i + 1, TRUE, <<>>)
         ELSE IF inStr THEN json_loads_items(s, i + 1, TRUE, Append(cur, s[i]))
              ELSE json_loads_items(s, i + 1, FALSE, <<>>)

json_loads_tags(s) == json_loads_items(s, 1, FALSE, <<>>)

\* ------------------------------------------------------------------------
\* core/memory/models: MemoryEntry
\* ------------------------------------------------------------------------
NoId == 0

MemoryEntry(source_file, section, content, tags) ==
    [id |-> NoId, source_file |-> source_file, section |-> section,
     content |-> content, tags |-> tags]

\* ------------------------------------------------------------------------
\* core/memory/parser: MarkdownParser
\* ------------------------------------------------------------------------
RECURSIVE SplitLines(_, _)
SplitLines(s, cur) ==
    IF s = <<>> THEN <<cur>>
    ELSE IF Head(s) = "\n" THEN <<cur>> \o SplitLines(Tail(s), <<>>)
    ELSE SplitLines(Tail(s), Append(cur, Head(s)))

RECURSIVE JoinLines(_)
JoinLines(ls) ==
    IF ls = <<>> THEN <<>>
    ELSE IF Tail(ls) = <<>> THEN Head(ls)
    ELSE Head(ls) \o <<"\n">> \o JoinLines(Tail(ls))

RECURSIVE LStrip(_, _)
LStrip(s, chars) ==
    IF s # <<>> /\ Head(s) \in chars THEN LStrip(Tail(s), chars) ELSE s

RECURSIVE RStrip(_, _)
RStrip(s, chars) ==
    IF s # <<>> /\ s[Len(s)] \in chars THEN RStrip(SubSeq(s, 1, Len(s) - 1), chars) ELSE s

Strip(s) == RStrip(LStrip(s, WhiteSpace), WhiteSpace)

StartsWithHash(line) == line # <<>> /\ Head(line) = "#"

\* the entry emitted at a section boundary with its body as joined, untrimmed
SectionEntries_untrimmed(source_file, current_section, current_content) ==
    IF current_section # <<>> /\ current_content # <<>>
    THEN <<MemoryEntry(source_file, current_section, JoinLines(current_content), <<>>)>>
    ELSE <<>>

\* the entry emitted at a section boundary, if any
SectionEntries(source_file, current_section, current_content) ==
    LET entry_content == Strip(JoinLines(current_content))
    IN  IF current_section # <<>> /\ current_content # <<>> /\ entry_content # <<>>
        THEN <<MemoryEntry(source_file, current_section, entry_content, <<>>)>>
        ELSE <<>>

RECURSIVE ParseLines(_, _, _, _)
ParseLines(lines, source_file, current_section, current_content) ==
    IF lines = <<>> THEN SectionEntries(source_file, current_section, current_content)
    ELSE IF StartsWithHash(Head(lines))
         THEN SectionEntries(source_file, current_section, current_content)
                 \o ParseLines(Tail(lines), source_file,
                               Strip(LStrip(Head(lines), {"#"})), <<>>)
         ELSE ParseLines(Tail(lines), source_file, current_section,
                         Append(current_content, Head(lines)))

parse_content(content, source_file) ==
    ParseLines(SplitLines(content, <<>>), source_file, <<>>, <<>>)

\* ------------------------------------------------------------------------
\* State
\* ------------------------------------------------------------------------
VARIABLES
    \* MemoryDatabase: the memories table (rows in rowid order), the FTS5
    \* index memories_fts, the AUTOINCREMENT counter, the connection, and
    \* the record of the latest operation with what it returned
    memories, memories_fts, mem_seq, memConn, memOp,
    \* the markdown files on disk, by path
    files,
    \* ContextBuilder: its session, its config, whether a memory database
    \* is configured, and the record of the latest operation
    session, config, hasMemory, built,
    \* core/utils: the module's _default_counter, as the encoding the one
    \* TokenCounter holds ("" while there is none)
    default_counter,
    \* SessionDatabase: the sessions and messages tables (rows in rowid
    \* order), the AUTOINCREMENT counter of messages, the connection, the
    \* clock behind CURRENT_TIMESTAMP and the record of the latest operation
    sessions_tbl, messages_tbl, msg_seq, sessConn, clock, sessOp,
    \* what the callers hold: the session last saved under each id, and the
    \* ids saved since the connection was opened
    lastSaved, savedOnConn,
    \* the highest id an insert of the memory store has returned so far
    issued,
    \* SessionManager: its cache self.sessions, whether it has a store
    \* (self.db), the ids _generate_id has produced and the record of its
    \* latest operation; AgentEngine: the record of the latest chat
    sessions, mgrDb, uuids, mgrOp, chatOp,
    \* the bots' CommandHandler: self.user_sessions (user id -> session id,
    \* "" for no entry) and the record of the latest command
    user_sessions, botOp,
    \* a save_session in progress on the writer's connection (its
    \* uncommitted view of the tables) and a load_session in progress on
    \* another connection
    txn, reader

memVars == <<memories, memories_fts, mem_seq, memConn, memOp, files, issued>>

agentVars == <<sessions, mgrDb, uuids, mgrOp, chatOp, user_sessions, botOp>>

readVars == <<txn, reader>>

buildVars == <<session, config, hasMemory, built, default_counter>>

sessVars == <<sessions_tbl, messages_tbl, msg_seq, sessConn, clock, sessOp,
              lastSaved, savedOnConn>>

vars == <<memories, memories_fts, mem_seq, memConn, memOp, files,
          session, config, hasMemory, built, default_counter,
          sessions_tbl, messages_tbl, msg_seq, sessConn, clock, sessOp,
          lastSaved, savedOnConn, issued,
          sessions, mgrDb, uuids, mgrOp, chatOp, user_sessions, botOp, txn, reader>>

\* ------------------------------------------------------------------------
\* core/memory/database: MemoryDatabase
\* ------------------------------------------------------------------------
\* trigger memories_ai: AFTER INSERT ON memories
memories_ai(fts, new) ==
    fts \cup {[rowid |-> new.id, content |-> new.content,
               section |-> new.section, tags |-> new.tags]}

\* the store without the delete trigger
memories_ad_missing(fts, old) == fts

\* trigger memories_ad: AFTER DELETE ON memories
memories_ad(fts, old) == {r \in fts : r.rowid # old.id}

RECURSIVE ApplyDeleteTrigger(_, _)
ApplyDeleteTrigger(fts, olds) ==
    IF olds = <<>> THEN fts
    ELSE ApplyDeleteTrigger(memories_ad(fts, Head(olds)), Tail(olds))

\* the row INSERT INTO memories stores for an entry
NewRow(entry, seq) ==
    [id |-> seq + 1, source_file |-> entry.source_file, section |-> entry.section,
     content |-> entry.content, tags |-> json_dumps_tags(entry.tags)]

\* INSERT on a table whose id is a plain rowid (no AUTOINCREMENT): the new
\* id is one more than the largest id in the table
InsertInto_rowid(db, entry) ==
    LET top == IF db.rows = <<>> THEN 0
               ELSE CHOOSE x \in {r.id : r \in Range(db.rows)} :
                        \A y \in {r.id : r \in Range(db.rows)} : y <= x
        new == NewRow(entry, top)
    IN  [rows |-> Append(db.rows, new),
         fts  |-> memories_ai(db.fts, new),
         seq  |-> new.id]

\* INSERT INTO memories ...; commit: the tables after the statement
InsertInto(db, entry) ==
    LET new == NewRow(entry, db.seq)
    IN  [rows |-> Append(db.rows, new),
         fts  |-> memories_ai(db.fts, new),
         seq  |-> new.id]

\* DELETE FROM memories without the WHERE clause
DeleteFrom_any(db, all, path) ==
    [rows |-> <<>>, fts |-> ApplyDeleteTrigger(db.fts, db.rows), seq |-> db.seq]

\* DELETE FROM memories [WHERE source_file = path]; commit
DeleteFrom(db, all, path) ==
    LET gone(r) == all \/ r.source_file = path
    IN  [rows |-> SelectSeq(db.rows, LAMBDA r : ~gone(r)),
         fts  |-> ApplyDeleteTrigger(db.fts, SelectSeq(db.rows, gone)),
         seq  |-> db.seq]

RowEntry(row) ==
    [id |-> row.id, source_file |-> row.source_file, section |-> row.section,
     content |-> row.content,
     tags |-> IF row.tags # <<>> THEN json_loads_tags(row.tags) ELSE <<>>]

Snippet(content) == SubSeq(content, 1, Min(Len(content), SnippetChars))

\* no clamp: every query runs with the largest limit
ClampLimit_max(limit) == LimitMax

ClampLimit(limit) == Max(LimitMin, Min(limit, LimitMax))

\* ORDER BY rank_score DESC
RECURSIVE OrderByScore_desc(_, _)
OrderByScore_desc(ids, score) ==
    IF ids = {} THEN <<>>
    ELSE LET m == CHOOSE i \in ids :
                     \A j \in ids : score[i] > score[j] \/ (score[i] = score[j] /\ i <= j)
         IN  <<m>> \o OrderByScore_desc(ids \ {m}, score)

\* rowids ordered by ascending score, rows of equal score in rowid order
RECURSIVE OrderByScore(_, _)
OrderByScore(ids, score) ==
    IF ids = {} THEN <<>>
    ELSE LET m == CHOOSE i \in ids :
                     \A j \in ids : score[i] < score[j] \/ (score[i] = score[j] /\ i <= j)
         IN  <<m>> \o OrderByScore(ids \ {m}, score)

\* the join without the MATCH condition
MatchingIds_all(rows, fts, phrases, source_file) ==
    {r.rowid : r \in {f \in fts :
        \E i \in DOMAIN rows :
            /\ rows[i].id = f.rowid
            /\ (source_file = "" \/ rows[i].source_file = source_file)}}

\* the rows of memories JOIN memories_fts that MATCH the sanitized query
MatchingIds(rows, fts, phrases, source_file) ==
    {r.rowid : r \in {f \in fts :
        /\ fts5Match(phrases, f)
        /\ \E i \in DOMAIN rows :
              /\ rows[i].id = f.rowid
              /\ (source_file = "" \/ rows[i].source_file = source_file)}}

\* bm25(memories_fts): FTS5 returns a negative number for every match, lower
\* for better matches
Bm25Scores == {-2, -1}

\* MemoryDatabase.search; score gives the bm25 value of every matching row
search(rows, fts, conn, query, score) ==
    IF ~conn THEN [status |-> "NotConnected", results |-> <<>>]
    ELSE LET search_term == sanitize_fts_query(query.query)
             limit       == ClampLimit(query.limit)
             parsed      == fts5Parse(search_term)
         IN  IF ~parsed.ok THEN [status |-> "OperationalError", results |-> <<>>]
             ELSE LET ids   == MatchingIds(rows, fts, parsed.phrases, query.source_file)
                      order == OrderByScore(ids, score)
                      top   == SubSeq(order, 1, Min(Len(order), limit))
                      rowOf(id) == CHOOSE r \in Range(rows) : r.id = id
                  IN  [status  |-> "ok",
                       results |-> [k \in 1..Len(top) |->
                                      [entry   |-> RowEntry(rowOf(top[k])),
                                       score   |-> score[top[k]],
                                       snippet |-> Snippet(rowOf(top[k]).content)]]]

SearchQuery(query, limit, source_file) ==
    [query |-> query, limit |-> limit, source_file |-> source_file]

\* the rows a search for the query text ranks (none when MATCH fails)
QueryMatches(rows, fts, query) ==
    LET parsed == fts5Parse(sanitize_fts_query(query.query))
    IN  IF parsed.ok THEN MatchingIds(rows, fts, parsed.phrases, query.source_file) ELSE {}

\* the bm25 assignments for the rows a query matches
ScoreFunctions(ids) == [ids -> Bm25Scores]

\* ------------------------------------------------------------------------
\* core/session/builder: ContextBuilder
\* ------------------------------------------------------------------------
ProtectedSlots == 2

ResultLines(i, result) ==
    << <<ToString(i), ".", " ", "[">> \o result.entry.section \o <<"]">>,
       <<" ", " ", " ">> \o result.snippet,
       <<>> >>

format_memory_results(results) ==
    JoinLines(Flatten([i \in 1..Len(results) |-> ResultLines(i, results[i])]))

MemoryMessage(results) ==
    Message(RoleSystem,
            <<"Relevant", " information", ":", "\n">> \o format_memory_results(results))

\* KeepRecent with a message that does not fit skipped instead of ending the walk
RECURSIVE KeepRecent_skip(_, _, _, _, _)
KeepRecent_skip(conversation, i, current_tokens, available_budget, kept_conversation) ==
    IF i = 0 THEN kept_conversation
    ELSE LET msg_tokens == count_messages(<<conversation[i]>>)
         IN  IF current_tokens + msg_tokens <= available_budget
             THEN KeepRecent_skip(conversation, i - 1, current_tokens + msg_tokens,
                                  available_budget, <<conversation[i]>> \o kept_conversation)
             ELSE KeepRecent_skip(conversation, i - 1, current_tokens,
                                  available_budget, kept_conversation)

\* the walk over the conversation from the most recent message backwards
RECURSIVE KeepRecent(_, _, _, _, _)
KeepRecent(conversation, i, current_tokens, available_budget, kept_conversation) ==
    IF i = 0 THEN kept_conversation
    ELSE LET msg_tokens == count_messages(<<conversation[i]>>)
         IN  IF current_tokens + msg_tokens <= available_budget
             THEN KeepRecent(conversation, i - 1, current_tokens + msg_tokens,
                             available_budget, <<conversation[i]>> \o kept_conversation)
             ELSE kept_conversation

IsProtected(messages, i) == messages[i].role = RoleSystem /\ i <= ProtectedSlots

SystemMessages(messages) ==
    LET idx == {i \in DOMAIN messages : IsProtected(messages, i)}
    IN  [k \in 1..Cardinality(idx) |->
            messages[CHOOSE i \in idx : Cardinality({j \in idx : j < i}) = k - 1]]

Conversation(messages) ==
    LET idx == {i \in DOMAIN messages : ~IsProtected(messages, i)}
    IN  [k \in 1..Cardinality(idx) |->
            messages[CHOOSE i \in idx : Cardinality({j \in idx : j < i}) = k - 1]]

\* truncate_to_budget returning nothing when the budget is used up
truncate_to_budget_empty(messages, max_tokens) ==
    LET system_messages  == SystemMessages(messages)
        available_budget == max_tokens - count_messages(system_messages)
        truncated        == system_messages
                               \o KeepRecent(Conversation(messages), Len(Conversation(messages)),
                                             0, available_budget, <<>>)
    IN  IF messages = <<>> \/ available_budget <= 0
        THEN [messages |-> <<>>, token_count |-> 0]
        ELSE [messages |-> truncated, token_count |-> count_messages(truncated)]

\* truncate_to_budget returning the running totals instead of a recount
truncate_to_budget_stale(messages, max_tokens) ==
    LET system_messages  == SystemMessages(messages)
        system_tokens    == count_messages(system_messages)
        available_budget == max_tokens - system_tokens
        kept             == KeepRecent(Conversation(messages), Len(Conversation(messages)),
                                       0, available_budget, <<>>)
    IN  IF messages = <<>> THEN [messages |-> <<>>, token_count |-> 0]
        ELSE IF available_budget <= 0
        THEN [messages |-> system_messages, token_count |-> system_tokens]
        ELSE [messages |-> system_messages \o kept,
              token_count |-> system_tokens
                  + SumSeq([i \in 1..Len(kept) |-> count_messages(<<kept[i]>>)])]

truncate_to_budget(messages, max_tokens) ==
    IF messages = <<>> THEN [messages |-> <<>>, token_count |-> 0]
    ELSE LET system_messages  == SystemMessages(messages)
             conversation     == Conversation(messages)
             system_tokens    == count_messages(system_messages)
             available_budget == max_tokens - system_tokens
         IN  IF available_budget <= 0
             THEN [messages |-> system_messages, token_count |-> system_tokens]
             ELSE LET truncated == system_messages
                                     \o KeepRecent(conversation, Len(conversation), 0,
                                                   available_budget, <<>>)
                  IN  [messages |-> truncated, token_count |-> count_messages(truncated)]

\* no relevance filter: every result of the search is kept
FilterByScore_all(results, min_score) == results

\* the results of the search that pass the relevance filter
FilterByScore(results, min_score) == SelectSeq(results, LAMBDA r : r.score >= min_score)

\* Assemble with the memory message placed before the system prompt
Assemble_memory_first(system_prompt, memory_results, session_messages) ==
    (IF memory_results # <<>> THEN <<MemoryMessage(memory_results)>> ELSE <<>>)
        \o (IF system_prompt # <<>> THEN <<Message(RoleSystem, system_prompt)>> ELSE <<>>)
        \o session_messages

\* the list build assembles before it counts tokens
Assemble(system_prompt, memory_results, session_messages) ==
    (IF system_prompt # <<>> THEN <<Message(RoleSystem, system_prompt)>> ELSE <<>>)
        \o (IF memory_results # <<>> THEN <<MemoryMessage(memory_results)>> ELSE <<>>)
        \o session_messages

\* ContextBuilder.build; found is what memory.search returned (used only
\* when a memory database is configured and the query is non-empty)
build(cfg, memory, session_messages, query, found) ==
    IF memory /\ query # <<>> /\ found.status # "ok"
    THEN [status |-> found.status, messages |-> <<>>, token_count |-> 0,
          memory_results |-> <<>>, truncated |-> FALSE]
    ELSE LET memory_results == IF memory /\ query # <<>>
                               THEN FilterByScore(found.results, cfg.memory_min_score)
                               ELSE <<>>
             messages    == Assemble(cfg.system_prompt, memory_results, session_messages)
             token_count == count_messages(messages)
             truncated   == token_count > cfg.max_tokens
             cut         == truncate_to_budget(messages, cfg.max_tokens)
         IN  [status         |-> "ok",
              messages       |-> IF truncated THEN cut.messages ELSE messages,
              token_count    |-> IF truncated THEN cut.token_count ELSE token_count,
              memory_results |-> memory_results,
              truncated      |-> truncated]

\* ------------------------------------------------------------------------
\* The context builder at work: a session that grows, and builds
\* ------------------------------------------------------------------------
SessionMessages ==
    {Message(RoleSystem, <<"a">>), Message(RoleUser, <<"a">>),
     Message(RoleUser, <<"a", "b">>), Message(RoleAssistant, <<"b">>)}

BuildQueries == {<<>>, <<"a">>, <<"*">>}

DefaultMaxResults == 3

Configs ==
    [max_tokens : -1..MaxBudget, system_prompt : {<<>>, <<"a">>},
     memory_max_results : {DefaultMaxResults}, memory_min_score : {-1, 0}]

NoBuild ==
    [op |-> "none", query |-> <<>>,
     result |-> [status |-> "none", messages |-> <<>>, token_count |-> 0,
                 memory_results |-> <<>>, truncated |-> FALSE]]

SessionIds == {"s1", "s2"}

NoSessOp ==
    [op |-> "none", status |-> "none", id |-> "", found |-> FALSE, messages |-> <<>>,
     restart |-> FALSE]

NoSession == [id |-> "", messages |-> <<>>, metadata |-> {}]

NoMgrOp ==
    [op |-> "none", status |-> "none", id |-> "", found |-> FALSE, session |-> NoSession]

NoChat ==
    [op |-> "none", status |-> "none", session_id |-> "", user_message |-> <<>>,
     content |-> <<>>, before |-> <<>>, sent |-> <<>>, truncated |-> FALSE,
     built |-> FALSE, memory_used |-> 0, created |-> FALSE]

Users == {"w1", "w2"}

NoUsers == [u \in Users |-> ""]

NoBotOp == [op |-> "none", user_id |-> "", chatted |-> FALSE, session_id |-> ""]

NoTxn ==
    [pc |-> "idle", session |-> NoSession, sessions |-> {}, messages |-> <<>>, seq |-> 0,
     left |-> <<>>]

NoRead ==
    [pc |-> "idle", id |-> "", row |-> {}, found |-> FALSE, session |-> NoSession,
     seen |-> {}]

\* no session manager, no agent and no second connection yet
NoCallers ==
    /\ sessions = {}
    /\ mgrDb = FALSE
    /\ uuids = 0
    /\ mgrOp = NoMgrOp
    /\ chatOp = NoChat
    /\ user_sessions = NoUsers
    /\ botOp = NoBotOp
    /\ txn = NoTxn
    /\ reader = NoRead

\* the session store after connect() and create_schema(), with no caller yet
InitSessionDb ==
    /\ sessions_tbl = {}
    /\ messages_tbl = <<>>
    /\ msg_seq = 0
    /\ sessConn = TRUE
    /\ clock = 0
    /\ sessOp = NoSessOp
    /\ lastSaved = [id \in SessionIds |-> [saved |-> FALSE, messages |-> <<>>]]
    /\ savedOnConn = {}

EmptyDb == [rows |-> <<>>, fts |-> {}, seq |-> 0]

NoMemOp ==
    [op |-> "none", status |-> "none", arg |-> "", query |-> <<>>, limit |-> 0,
     ids |-> <<>>, results |-> <<>>, again |-> FALSE]

\* the knowledge the builder searches: two entries inserted into a new store
BuilderDb ==
    InsertInto(InsertInto(EmptyDb, MemoryEntry("p1", <<"a">>, <<"a">>, <<>>)),
               MemoryEntry("p1", <<"b">>, <<"b">>, <<>>))

InitBuilder ==
    /\ issued = BuilderDb.seq
    /\ memories = BuilderDb.rows
    /\ memories_fts = BuilderDb.fts
    /\ mem_seq = BuilderDb.seq
    /\ memConn = TRUE
    /\ memOp = NoMemOp
    /\ files = [p \in {"p1"} |-> [exists |-> FALSE, text |-> <<>>]]
    /\ session = <<>>
    /\ config \in Configs
    /\ hasMemory \in BOOLEAN
    /\ built = NoBuild
    /\ default_counter = NoCounter
    /\ InitSessionDb
    /\ NoCallers

\* Session.add_message
AddMessage(m) ==
    /\ Len(session) < MaxMsgs
    /\ session' = Append(session, m)
    /\ built' = NoBuild
    /\ UNCHANGED <<config, hasMemory, default_counter>>
    /\ UNCHANGED memVars
    /\ UNCHANGED sessVars
    /\ UNCHANGED agentVars
    /\ UNCHANGED readVars

\* a build whose truncation removes the oldest message from the session's
\* own list
Build_in_place(query) ==
    LET q == SearchQuery(query, config.memory_max_results, "")
    IN  \E score \in ScoreFunctions(QueryMatches(memories, memories_fts, q)) :
            /\ built' = [op |-> "build", query |-> query,
                         result |-> build(config, hasMemory, session, query,
                                          search(memories, memories_fts, memConn, q, score))]
            /\ default_counter' = IF built'.result.status = "ok"
                                   THEN get_token_counter(default_counter, DefaultModel)
                                   ELSE default_counter
            /\ session' = IF built'.result.truncated /\ session # <<>>
                           THEN Tail(session) ELSE session
            /\ UNCHANGED <<config, hasMemory>>
            /\ UNCHANGED memVars
            /\ UNCHANGED sessVars
            /\ UNCHANGED agentVars
            /\ UNCHANGED readVars

\* ContextBuilder.build(session, query)
Build(query) ==
    LET q == SearchQuery(query, config.memory_max_results, "")
    IN  \E score \in ScoreFunctions(QueryMatches(memories, memories_fts, q)) :
            /\ built' = [op |-> "build", query |-> query,
                         result |-> build(config, hasMemory, session, query,
                                          search(memories, memories_fts, memConn, q, score))]
            /\ default_counter' = IF built'.result.status = "ok"
                                   THEN get_token_counter(default_counter, DefaultModel)
                                   ELSE default_counter
            /\ UNCHANGED <<session, config, hasMemory>>
            /\ UNCHANGED memVars
            /\ UNCHANGED sessVars
            /\ UNCHANGED agentVars
            /\ UNCHANGED readVars

NextBuilder ==
    \/ \E m \in SessionMessages : AddMessage(m)
    \/ \E query \in BuildQueries : Build(query)

SpecBuilder == InitBuilder /\ [][NextBuilder]_vars

\* ------------------------------------------------------------------------
\* Properties of ContextBuilder.build
\* ------------------------------------------------------------------------
Built == built.result

BuildDone == built.op = "build" /\ Built.status = "ok"

\* what the spec says build assembles: the system prompt message iff the
\* prompt is non-empty, the memory message iff a result was kept, then the
\* session's messages
ExpectedAssembled ==
    LET sys == [role |-> RoleSystem, content |-> config.system_prompt, metadata |-> EmptyMeta]
        mem == [role |-> RoleSystem,
                content |-> <<"Relevant", " information", ":", "\n">>
                               \o format_memory_results(Built.memory_results),
                metadata |-> EmptyMeta]
    IN  (IF config.system_prompt = <<>> THEN <<>> ELSE <<sys>>)
            \o (IF Built.memory_results = <<>> THEN <<>> ELSE <<mem>>)
            \o session

\* the messages truncation protects, and the conversation it walks
ExpectedProtected == SystemMessages(ExpectedAssembled)

ExpectedConversation == Conversation(ExpectedAssembled)

Suffix(s, k) == SubSeq(s, Len(s) - k + 1, Len(s))

\* C1: whenever build returns truncated = true, the returned token_count is
\* at most config.max_tokens
C1_BudgetInvariant ==
    (BuildDone /\ Built.truncated) => Built.token_count <= config.max_tokens

C4_TokenCountRecomputed ==
    BuildDone => Built.token_count = count_messages(Built.messages)

C4_Witness ==
    /\ BuildDone /\ Built.truncated
    /\ ExpectedProtected # <<>>
    /\ Len(Built.messages) > Len(ExpectedProtected)
    /\ Built.token_count < config.max_tokens

\* C5: truncated is true exactly when the assembled list costs more than
\* max_tokens, and an untruncated result is the assembled list
C5_TruncatedIffOverBudget ==
    BuildDone =>
        /\ Built.truncated <=> (count_messages(ExpectedAssembled) > config.max_tokens)
        /\ ~Built.truncated => Built.messages = ExpectedAssembled

C5_Witness ==
    /\ BuildDone /\ ~Built.truncated
    /\ config.system_prompt # <<>>
    /\ Built.memory_results # <<>>
    /\ session # <<>>

\* ------------------------------------------------------------------------
\* core/memory/database and core/memory/indexer at work
\* ------------------------------------------------------------------------
\* MemoryDatabase.insert
insert(db, conn, entry) ==
    IF ~conn THEN [status |-> "NotConnected", db |-> db, ids |-> <<>>]
    ELSE LET after == InsertInto(db, entry)
         IN  [status |-> "ok", db |-> after, ids |-> <<after.seq>>]

\* the loop of index_file over the parsed entries
RECURSIVE InsertAll(_, _, _, _)
InsertAll(db, conn, entries, inserted_ids) ==
    IF entries = <<>> THEN [status |-> "ok", db |-> db, ids |-> inserted_ids]
    ELSE LET r == insert(db, conn, Head(entries))
         IN  IF r.status # "ok" THEN [status |-> r.status, db |-> r.db, ids |-> <<>>]
             ELSE InsertAll(r.db, conn, Tail(entries), inserted_ids \o r.ids)

\* MarkdownParser.parse_file followed by MemoryIndexer.index_file's inserts
index_file(db, conn, file, file_path) ==
    IF ~file.exists THEN [status |-> "FileNotFoundError", db |-> db, ids |-> <<>>]
    ELSE InsertAll(db, conn, parse_content(file.text, file_path), <<>>)

\* the loop of index_file when the fail_at-th call of insert raises
\* sqlite3.OperationalError (disk full, database locked) in its INSERT: the
\* inserts before it are committed one by one, and the list of ids is lost
\* with the exception
RECURSIVE InsertAllFailing(_, _, _, _, _)
InsertAllFailing(db, conn, entries, inserted_ids, fail_at) ==
    IF entries = <<>> THEN [status |-> "ok", db |-> db, ids |-> inserted_ids]
    ELSE IF conn /\ fail_at = Len(inserted_ids) + 1
         THEN [status |-> "OperationalError", db |-> db, ids |-> <<>>]
    ELSE LET r == insert(db, conn, Head(entries))
         IN  IF r.status # "ok" THEN [status |-> r.status, db |-> r.db, ids |-> <<>>]
             ELSE InsertAllFailing(r.db, conn, Tail(entries), inserted_ids \o r.ids, fail_at)

\* index_file as one transaction, rolled back when an insert fails
index_file_failing_rollback(db, conn, file, file_path, fail_at) ==
    IF ~file.exists THEN [status |-> "FileNotFoundError", db |-> db, ids |-> <<>>]
    ELSE LET r == InsertAllFailing(db, conn, parse_content(file.text, file_path), <<>>,
                                   fail_at)
         IN  IF r.status = "ok" THEN r ELSE [r EXCEPT !.db = db]

\* MemoryIndexer.index_file when the fail_at-th insert raises
index_file_failing(db, conn, file, file_path, fail_at) ==
    IF ~file.exists THEN [status |-> "FileNotFoundError", db |-> db, ids |-> <<>>]
    ELSE InsertAllFailing(db, conn, parse_content(file.text, file_path), <<>>, fail_at)

\* reindex without the delete of the old entries
reindex_keep_old(db, conn, file, file_path) == index_file(db, conn, file, file_path)

\* MemoryIndexer.reindex
reindex(db, conn, file, file_path) ==
    index_file(IF conn THEN DeleteFrom(db, FALSE, file_path) ELSE db, conn, file, file_path)

\* clear without the connection test
clear_unguarded(db, conn) ==
    [status |-> "ok", db |-> DeleteFrom(db, TRUE, ""), ids |-> <<>>]

\* MemoryDatabase.clear
clear(db, conn) ==
    IF ~conn THEN [status |-> "NotConnected", db |-> db, ids |-> <<>>]
    ELSE [status |-> "ok", db |-> DeleteFrom(db, TRUE, ""), ids |-> <<>>]

Paths == {"p1"}

Doc1 == <<"#", "a", "\n", "b">>

Doc2 == <<"#", "a", "\n", "b", "\n", "#", "b", "\n", "a", " ", "b">>

Doc3 == <<"a", "\n", "#", " ", "b", "\n", " ", "\n", "#", "a", "\n", "*">>

Doc0 == <<"a">>

Docs == {Doc0, Doc1, Doc2, Doc3}

\* entries a caller inserts directly (the agent's extracted memories)
DirectEntries ==
    {MemoryEntry("session_s1", <<"b">>, <<"*">>, << <<"b">> >>),
     MemoryEntry("p1", <<"b">>, <<"a", " ", "b">>, <<>>)}

\* query texts: plain words, the characters the sanitizer removes or
\* escapes, and the '*' of the FTS5 grammar
Queries ==
    {<<>>, <<"a">>, <<"b">>, <<"a", " ", "b">>, <<"*">>, <<"?">>, <<"\"">>, <<"^A">>,
     <<"a", "*">>, <<"a", "\"">>, <<"a", "?">>, <<"^A", "b">>}

Limits == {-1, 0, 1, 101}

SearchInputs ==
    {SearchQuery(text, 101, "") : text \in Queries}
        \cup {SearchQuery(<<"b">>, limit, "") : limit \in Limits}
        \cup {SearchQuery(<<"b">>, 101, "p1")}

Greatest(S) == CHOOSE x \in S : \A y \in S : y <= x

CurrentDb == [rows |-> memories, fts |-> memories_fts, seq |-> mem_seq]

\* the store and the operation record after a writing operation returned r
Stored(op, arg, r) ==
    /\ memories' = r.db.rows
    /\ memories_fts' = r.db.fts
    /\ mem_seq' = r.db.seq
    /\ issued' = Greatest({issued} \cup Range(r.ids))
    /\ memOp' = [op |-> op, status |-> r.status, arg |-> arg, query |-> <<>>, limit |-> 0,
                 ids |-> r.ids, results |-> <<>>,
                 again |-> memOp.op = op /\ memOp.arg = arg /\ memOp.status = "ok"]

\* an operation that leaves the tables alone
Noted(op, arg) ==
    /\ memOp' = [op |-> op, status |-> "ok", arg |-> arg, query |-> <<>>, limit |-> 0,
                 ids |-> <<>>, results |-> <<>>, again |-> FALSE]
    /\ UNCHANGED <<memories, memories_fts, mem_seq, issued>>

InitMemory ==
    /\ issued = 0
    /\ memories = <<>>
    /\ memories_fts = {}
    /\ mem_seq = 0
    /\ memConn = TRUE
    /\ memOp = NoMemOp
    /\ files = [p \in Paths |-> [exists |-> FALSE, text |-> <<>>]]
    /\ session = <<>>
    /\ config = [max_tokens |-> MaxBudget, system_prompt |-> <<>>,
                 memory_max_results |-> DefaultMaxResults, memory_min_score |-> 0]
    /\ hasMemory = TRUE
    /\ built = NoBuild
    /\ default_counter = NoCounter
    /\ InitSessionDb
    /\ NoCallers

MemConnect ==
    /\ ~memConn
    /\ memConn' = TRUE
    /\ Noted("connect", "")
    /\ UNCHANGED files
    /\ UNCHANGED buildVars
    /\ UNCHANGED sessVars
    /\ UNCHANGED agentVars
    /\ UNCHANGED readVars

MemClose ==
    /\ memConn
    /\ memConn' = FALSE
    /\ Noted("close", "")
    /\ UNCHANGED files
    /\ UNCHANGED buildVars
    /\ UNCHANGED sessVars
    /\ UNCHANGED agentVars
    /\ UNCHANGED readVars

WriteFile(path, doc) ==
    /\ files[path] # [exists |-> TRUE, text |-> doc]
    /\ files' = [files EXCEPT ![path] = [exists |-> TRUE, text |-> doc]]
    /\ Noted("write", path)
    /\ UNCHANGED memConn
    /\ UNCHANGED buildVars
    /\ UNCHANGED sessVars
    /\ UNCHANGED agentVars
    /\ UNCHANGED readVars

RemoveFile(path) ==
    /\ files[path].exists
    /\ files' = [files EXCEPT ![path] = [exists |-> FALSE, text |-> <<>>]]
    /\ Noted("remove", path)
    /\ UNCHANGED memConn
    /\ UNCHANGED buildVars
    /\ UNCHANGED sessVars
    /\ UNCHANGED agentVars
    /\ UNCHANGED readVars

Insert(entry) ==
    /\ mem_seq < MaxSeq
    /\ Stored("insert", entry.source_file, insert(CurrentDb, memConn, entry))
    /\ UNCHANGED <<memConn, files>>
    /\ UNCHANGED buildVars
    /\ UNCHANGED sessVars
    /\ UNCHANGED agentVars
    /\ UNCHANGED readVars

IndexFile(path) ==
    LET r == index_file(CurrentDb, memConn, files[path], path)
    IN  /\ r.db.seq <= MaxSeq
        /\ Stored("index_file", path, r)
        /\ UNCHANGED <<memConn, files>>
        /\ UNCHANGED buildVars
        /\ UNCHANGED sessVars
        /\ UNCHANGED agentVars
        /\ UNCHANGED readVars

\* index_file with a failing insert; the record keeps which insert failed
IndexFileFailing(path) ==
    \E fail_at \in 1..MaxSeq :
        LET r == index_file_failing(CurrentDb, memConn, files[path], path, fail_at)
        IN  /\ fail_at <= Len(parse_content(files[path].text, path))
            /\ r.db.seq <= MaxSeq
            /\ memories' = r.db.rows
            /\ memories_fts' = r.db.fts
            /\ mem_seq' = r.db.seq
            /\ issued' = issued
            /\ memOp' = [op |-> "index_file", status |-> r.status, arg |-> path,
                         query |-> <<>>, limit |-> 0, ids |-> r.ids, results |-> <<>>,
                         again |-> FALSE, failed |-> fail_at]
            /\ UNCHANGED <<memConn, files>>
            /\ UNCHANGED buildVars
            /\ UNCHANGED sessVars
            /\ UNCHANGED agentVars
            /\ UNCHANGED readVars

Reindex(path) ==
    LET r == reindex(CurrentDb, memConn, files[path], path)
    IN  /\ r.db.seq <= MaxSeq
        /\ Stored("reindex", path, r)
        /\ UNCHANGED <<memConn, files>>
        /\ UNCHANGED buildVars
        /\ UNCHANGED sessVars
        /\ UNCHANGED agentVars
        /\ UNCHANGED readVars

Clear ==
    /\ Stored("clear", "", clear(CurrentDb, memConn))
    /\ UNCHANGED <<memConn, files>>
    /\ UNCHANGED buildVars
    /\ UNCHANGED sessVars
    /\ UNCHANGED agentVars
    /\ UNCHANGED readVars

Search(q) ==
    LET text == q.query
        limit == q.limit
        source_file == q.source_file
    IN  \E score \in ScoreFunctions(QueryMatches(memories, memories_fts, q)) :
            LET r == search(memories, memories_fts, memConn, q, score)
            IN  /\ memOp' = [op |-> "search", status |-> r.status, arg |-> source_file,
                             query |-> text, limit |-> limit, ids |-> <<>>,
                             results |-> r.results, again |-> FALSE]
                /\ UNCHANGED <<memories, memories_fts, mem_seq, memConn, files, issued>>
                /\ UNCHANGED buildVars
                /\ UNCHANGED sessVars
                /\ UNCHANGED agentVars
                /\ UNCHANGED readVars

\* the indexer and the store it writes
NextMemory ==
    \/ MemConnect
    \/ MemClose
    \/ \E path \in Paths, doc \in Docs : WriteFile(path, doc)
    \/ \E path \in Paths : RemoveFile(path)
    \/ \E entry \in DirectEntries : Insert(entry)
    \/ \E path \in Paths : IndexFile(path)
    \/ \E path \in Paths : IndexFileFailing(path)
    \/ \E path \in Paths : Reindex(path)
    \/ Clear

SpecMemory == InitMemory /\ [][NextMemory]_vars

\* the store under inserts and searches
NextSearch ==
    \/ MemConnect
    \/ MemClose
    \/ \E entry \in DirectEntries : Insert(entry)
    \/ Clear
    \/ \E q \in SearchInputs : Search(q)

SpecSearch == InitMemory /\ [][NextSearch]_vars

\* ------------------------------------------------------------------------
\* Properties of the memory store and the indexer
\* ------------------------------------------------------------------------
\* the stored entries without their ids, in rowid order
StoredEntries(rows) ==
    [i \in 1..Len(rows) |->
        <<rows[i].source_file, rows[i].section, rows[i].content>>]

ParsedEntries(path) ==
    LET es == parse_content(files[path].text, path)
    IN  [i \in 1..Len(es) |-> <<es[i].source_file, es[i].section, es[i].content>>]

\* C6: a reindex of a path run directly after a reindex of the same path
\* leaves the stored (source, section, content) entries as they were, and on
\* a connected store the entries of the path are those of the parse, once each
C6_ReindexIdempotent ==
    [][(/\ memOp.op = "reindex" /\ memOp.status = "ok"
        /\ memOp'.op = "reindex" /\ memOp'.status = "ok"
        /\ memOp'.arg = memOp.arg /\ memOp'.again)
       => /\ StoredEntries(memories') = StoredEntries(memories)
          /\ memConn' =>
                SelectSeq(StoredEntries(memories'), LAMBDA e : e[1] = memOp'.arg)
                    = ParsedEntries(memOp'.arg)]_vars

C6_Witness ==
    /\ memOp.op = "reindex" /\ memOp.status = "ok" /\ memOp.again
    /\ Len(memOp.ids) = 1
    /\ Len(memories) = 2

\* C7: a search on a connected store whose text is the content of a stored
\* entry, with a limit of at least the number of entries, succeeds and
\* returns that entry
C7_RoundTrip ==
    (memOp.op = "search" /\ memConn /\ memOp.arg = "" /\ memOp.limit >= Len(memories)) =>
        \A i \in DOMAIN memories :
            memOp.query = memories[i].content =>
                /\ memOp.status = "ok"
                /\ \E k \in DOMAIN memOp.results :
                       memOp.results[k].entry.id = memories[i].id

\* C8: a search on a connected store returns a list, whatever the query text
C8_SearchNeverRaises ==
    (memOp.op = "search" /\ memConn) => memOp.status = "ok"

\* C9: the index holds one row per row of the memories table, with the
\* same id, content, section and tags, and no other row
C9_IndexMatchesTable ==
    /\ \A i \in DOMAIN memories :
           {f \in memories_fts : f.rowid = memories[i].id}
               = {[rowid |-> memories[i].id, content |-> memories[i].content,
                   section |-> memories[i].section, tags |-> memories[i].tags]}
    /\ \A f \in memories_fts : \E i \in DOMAIN memories : memories[i].id = f.rowid

C9_Witness ==
    /\ memOp.op = "reindex" /\ memOp.status = "ok"
    /\ Len(memories) >= 2
    /\ mem_seq > Len(memories)
    /\ Cardinality(memories_fts) = Len(memories)

\* ------------------------------------------------------------------------
\* json.dumps / json.loads of a metadata dict.  A dict is a set of
\* <<key, value>> pairs with at most one key; a value is an integer or a
\* string, [t |-> "int" or "str", v |-> its characters].
\* ------------------------------------------------------------------------
json_dumps_value(value) ==
    IF value.t = "str" THEN <<"\"">> \o value.v \o <<"\"">> ELSE value.v

json_dumps(meta) ==
    IF meta = {} THEN <<"{", "}">>
    ELSE LET kv == CHOOSE x \in meta : TRUE
         IN  <<"{", "\"">> \o kv[1] \o <<"\"", ":", " ">> \o json_dumps_value(kv[2]) \o <<"}">>

\* the position of the first character c of s at or after position i
RECURSIVE IndexOf(_, _, _)
IndexOf(s, c, i) == IF i > Len(s) \/ s[i] = c THEN i ELSE IndexOf(s, c, i + 1)

json_loads_value(s) ==
    IF Head(s) = "\""
    THEN [t |-> "str", v |-> SubSeq(s, 2, IndexOf(s, "\"", 2) - 1)]
    ELSE [t |-> "int", v |-> s]

json_loads(s) ==
    IF Len(s) = 2 THEN {}
    ELSE LET keyEnd == IndexOf(s, "\"", 3)
         IN  {<<SubSeq(s, 3, keyEnd - 1),
                json_loads_value(SubSeq(s, keyEnd + 3, Len(s) - 1))>>}

\* ------------------------------------------------------------------------
\* core/session/database: SessionDatabase
\* ------------------------------------------------------------------------
\* the rows INSERT INTO messages stores for the messages of a session; the
\* i-th insert reads CURRENT_TIMESTAMP as stamps[i]
NewMessageRows(session_id, messages, seq, stamps) ==
    [i \in 1..Len(messages) |->
        [id |-> seq + i, session_id |-> session_id, role |-> messages[i].role,
         content |-> messages[i].content,
         metadata |-> json_dumps(messages[i].metadata), created_at |-> stamps[i]]]

\* save_session without the DELETE of the old messages
save_session_append(db, conn, s, stamps) ==
    IF ~conn THEN [status |-> "NotConnected", db |-> db]
    ELSE [status |-> "ok",
          db |-> [sessions |-> {r \in db.sessions : r.id # s.id}
                                  \cup {[id |-> s.id, metadata |-> json_dumps(s.metadata)]},
                  messages |-> db.messages
                                  \o NewMessageRows(s.id, s.messages, db.seq, stamps),
                  seq |-> db.seq + Len(s.messages)]]

\* SessionDatabase.save_session
save_session(db, conn, s, stamps) ==
    IF ~conn THEN [status |-> "NotConnected", db |-> db]
    ELSE [status |-> "ok",
          db |-> [sessions |-> {r \in db.sessions : r.id # s.id}
                                  \cup {[id |-> s.id, metadata |-> json_dumps(s.metadata)]},
                  messages |-> SelectSeq(db.messages, LAMBDA r : r.session_id # s.id)
                                  \o NewMessageRows(s.id, s.messages, db.seq, stamps),
                  seq |-> db.seq + Len(s.messages)]]

\* ORDER BY created_at DESC
RECURSIVE OrderByCreatedAt_desc(_)
OrderByCreatedAt_desc(rows) ==
    IF rows = <<>> THEN <<>>
    ELSE LET m == CHOOSE i \in DOMAIN rows :
                     \A j \in DOMAIN rows :
                        \/ rows[i].created_at > rows[j].created_at
                        \/ (rows[i].created_at = rows[j].created_at /\ i <= j)
         IN  <<rows[m]>> \o OrderByCreatedAt_desc(SubSeq(rows, 1, m - 1)
                                                     \o SubSeq(rows, m + 1, Len(rows)))

\* ORDER BY created_at ASC: rows of equal created_at stay in rowid order
RECURSIVE OrderByCreatedAt(_)
OrderByCreatedAt(rows) ==
    IF rows = <<>> THEN <<>>
    ELSE LET m == CHOOSE i \in DOMAIN rows :
                     \A j \in DOMAIN rows :
                        \/ rows[i].created_at < rows[j].created_at
                        \/ (rows[i].created_at = rows[j].created_at /\ i <= j)
         IN  <<rows[m]>> \o OrderByCreatedAt(SubSeq(rows, 1, m - 1)
                                                \o SubSeq(rows, m + 1, Len(rows)))

RowMessage(row) ==
    [role |-> row.role, content |-> row.content,
     metadata |-> IF row.metadata # <<>> THEN json_loads(row.metadata) ELSE {}]

\* SessionDatabase.load_session
load_session(db, conn, session_id) ==
    IF ~conn THEN [status |-> "NotConnected", found |-> FALSE, messages |-> <<>>]
    ELSE IF ~\E r \in db.sessions : r.id = session_id
    THEN [status |-> "ok", found |-> FALSE, messages |-> <<>>]
    ELSE LET rows == OrderByCreatedAt(
                        SelectSeq(db.messages, LAMBDA r : r.session_id = session_id))
         IN  [status |-> "ok", found |-> TRUE,
              messages |-> [i \in 1..Len(rows) |-> RowMessage(rows[i])]]

\* SessionDatabase.delete_session: the messages table has a foreign key ON
\* DELETE CASCADE, which SQLite enforces only under PRAGMA foreign_keys = ON;
\* the connection never sets it
delete_session(db, conn, session_id) ==
    IF ~conn THEN [status |-> "NotConnected", db |-> db, found |-> FALSE]
    ELSE [status |-> "ok",
          db |-> [db EXCEPT !.sessions = {r \in db.sessions : r.id # session_id}],
          found |-> \E r \in db.sessions : r.id = session_id]

\* SessionDatabase.clear_all
clear_all(db, conn) ==
    IF ~conn THEN [status |-> "NotConnected", db |-> db]
    ELSE [status |-> "ok", db |-> [db EXCEPT !.sessions = {}]]

\* ------------------------------------------------------------------------
\* The session store at work
\* ------------------------------------------------------------------------
MetaInt == {<< <<"k">>, [t |-> "int", v |-> <<"1">>] >>}

MetaStr == {<< <<"k">>, [t |-> "str", v |-> <<"1">>] >>}

StoredMessages ==
    {[role |-> RoleUser, content |-> <<"a">>, metadata |-> EmptyMeta],
     [role |-> RoleAssistant, content |-> <<"b">>, metadata |-> MetaInt],
     [role |-> RoleUser, content |-> <<"a">>, metadata |-> MetaStr]}

Sessions ==
    [id : SessionIds, messages : SeqsUpTo(StoredMessages, MaxSessMsgs), metadata : {EmptyMeta}]

CurrentSessDb == [sessions |-> sessions_tbl, messages |-> messages_tbl, seq |-> msg_seq]

SessStored(db) ==
    /\ sessions_tbl' = db.sessions
    /\ messages_tbl' = db.messages
    /\ msg_seq' = db.seq

SessRecord(op, status, id, found, messages, restart) ==
    [op |-> op, status |-> status, id |-> id, found |-> found, messages |-> messages,
     restart |-> restart]

SessConnect ==
    /\ ~sessConn
    /\ sessConn' = TRUE
    /\ sessOp' = SessRecord("connect", "ok", "", FALSE, <<>>, FALSE)
    /\ UNCHANGED <<sessions_tbl, messages_tbl, msg_seq, clock, lastSaved, savedOnConn>>
    /\ UNCHANGED memVars
    /\ UNCHANGED buildVars
    /\ UNCHANGED agentVars
    /\ UNCHANGED readVars

SessClose ==
    /\ sessConn
    /\ sessConn' = FALSE
    /\ savedOnConn' = {}
    /\ sessOp' = SessRecord("close", "ok", "", FALSE, <<>>, FALSE)
    /\ UNCHANGED <<sessions_tbl, messages_tbl, msg_seq, clock, lastSaved>>
    /\ UNCHANGED memVars
    /\ UNCHANGED buildVars
    /\ UNCHANGED agentVars
    /\ UNCHANGED readVars

Tick ==
    /\ clock < MaxClock
    /\ clock' = clock + 1
    /\ sessOp' = SessRecord("tick", "ok", "", FALSE, <<>>, FALSE)
    /\ UNCHANGED <<sessions_tbl, messages_tbl, msg_seq, sessConn, lastSaved, savedOnConn>>
    /\ UNCHANGED memVars
    /\ UNCHANGED buildVars
    /\ UNCHANGED agentVars
    /\ UNCHANGED readVars

\* save_session(s); the clock may step once while the messages are inserted
SaveSession(s) ==
    /\ msg_seq + Len(s.messages) <= MaxMsgId
    /\ \E late \in 0..Len(s.messages) :
          LET step   == IF late > 0 /\ clock < MaxClock THEN 1 ELSE 0
              stamps == [i \in 1..Len(s.messages) |->
                            IF i > Len(s.messages) - late THEN clock + step ELSE clock]
              r      == save_session(CurrentSessDb, sessConn, s, stamps)
          IN  /\ SessStored(r.db)
              /\ clock' = IF r.status = "ok" THEN clock + step ELSE clock
              /\ sessOp' = SessRecord("save", r.status, s.id, FALSE, <<>>, FALSE)
              /\ lastSaved' = IF r.status = "ok"
                              THEN [lastSaved EXCEPT ![s.id] =
                                       [saved |-> TRUE, messages |-> s.messages]]
                              ELSE lastSaved
              /\ savedOnConn' = IF r.status = "ok" THEN savedOnConn \cup {s.id}
                                ELSE savedOnConn
    /\ UNCHANGED sessConn
    /\ UNCHANGED memVars
    /\ UNCHANGED buildVars
    /\ UNCHANGED agentVars
    /\ UNCHANGED readVars

LoadSession(id) ==
    LET r == load_session(CurrentSessDb, sessConn, id)
    IN  /\ sessOp' = SessRecord("load", r.status, id, r.found, r.messages,
                                r.found /\ id \notin savedOnConn)
        /\ UNCHANGED <<sessions_tbl, messages_tbl, msg_seq, sessConn, clock,
                       lastSaved, savedOnConn>>
        /\ UNCHANGED memVars
        /\ UNCHANGED buildVars
        /\ UNCHANGED agentVars
        /\ UNCHANGED readVars

DeleteSession(id) ==
    LET r == delete_session(CurrentSessDb, sessConn, id)
    IN  /\ SessStored(r.db)
        /\ sessOp' = SessRecord("delete", r.status, id, r.found, <<>>, FALSE)
        /\ lastSaved' = IF r.status = "ok"
                        THEN [lastSaved EXCEPT ![id] = [saved |-> FALSE, messages |-> <<>>]]
                        ELSE lastSaved
        /\ UNCHANGED <<sessConn, clock, savedOnConn>>
        /\ UNCHANGED memVars
        /\ UNCHANGED buildVars
        /\ UNCHANGED agentVars
        /\ UNCHANGED readVars

ClearAll ==
    LET r == clear_all(CurrentSessDb, sessConn)
    IN  /\ SessStored(r.db)
        /\ sessOp' = SessRecord("clear_all", r.status, "", FALSE, <<>>, FALSE)
        /\ lastSaved' = IF r.status = "ok"
                        THEN [id \in SessionIds |-> [saved |-> FALSE, messages |-> <<>>]]
                        ELSE lastSaved
        /\ UNCHANGED <<sessConn, clock, savedOnConn>>
        /\ UNCHANGED memVars
        /\ UNCHANGED buildVars
        /\ UNCHANGED agentVars
        /\ UNCHANGED readVars

InitSession ==
    /\ InitSessionDb
    /\ NoCallers
    /\ issued = 0
    /\ memories = <<>>
    /\ memories_fts = {}
    /\ mem_seq = 0
    /\ memConn = TRUE
    /\ memOp = NoMemOp
    /\ files = [p \in Paths |-> [exists |-> FALSE, text |-> <<>>]]
    /\ session = <<>>
    /\ config = [max_tokens |-> MaxBudget, system_prompt |-> <<>>,
                 memory_max_results |-> DefaultMaxResults, memory_min_score |-> 0]
    /\ hasMemory = TRUE
    /\ built = NoBuild
    /\ default_counter = NoCounter

NextSession ==
    \/ SessConnect
    \/ SessClose
    \/ Tick
    \/ \E s \in Sessions : SaveSession(s)
    \/ \E id \in SessionIds : LoadSession(id)
    \/ \E id \in SessionIds : DeleteSession(id)
    \/ ClearAll

SpecSession == InitSession /\ [][NextSession]_vars

\* C10: a load of a session id answers with the session last saved under
\* that id: the same id and the same messages (role, content, metadata) in
\* the same order, also after the connection was closed and opened again
C10_SaveLoadRoundTrip ==
    (sessOp.op = "load" /\ sessOp.status = "ok" /\ lastSaved[sessOp.id].saved) =>
        /\ sessOp.found
        /\ sessOp.messages = lastSaved[sessOp.id].messages

C10_Witness ==
    /\ sessOp.op = "load" /\ sessOp.status = "ok" /\ sessOp.restart
    /\ lastSaved[sessOp.id].saved
    /\ Len(sessOp.messages) = 2
    /\ sessOp.messages[1].metadata = MetaStr
    /\ sessOp.messages[2].metadata = MetaInt
    /\ \E i, j \in DOMAIN messages_tbl :
          /\ messages_tbl[i].session_id = sessOp.id
          /\ messages_tbl[j].session_id = sessOp.id
          /\ messages_tbl[i].created_at < messages_tbl[j].created_at

\* the message rows stored for a session id, in rowid order, as messages
MessagesOf(id) ==
    LET rows == SelectSeq(messages_tbl, LAMBDA r : r.session_id = id)
    IN  [i \in 1..Len(rows) |-> RowMessage(rows[i])]

\* C11: save_session is an upsert that replaces the message set: whatever
\* was saved before, the store holds exactly one session row for a saved id
\* and the message rows of that id are exactly the messages of the session
\* saved last, none of an earlier save duplicated or left over
C11_SaveReplacesMessages ==
    \A id \in SessionIds :
        lastSaved[id].saved =>
            /\ Cardinality({r \in sessions_tbl : r.id = id}) = 1
            /\ MessagesOf(id) = lastSaved[id].messages

\* a save of a one-message session over an earlier save of the same id: the
\* only message row left is the one of the second save
C11_Witness ==
    /\ sessOp.op = "save" /\ sessOp.status = "ok"
    /\ Len(messages_tbl) = 1
    /\ messages_tbl[1].session_id = sessOp.id
    /\ messages_tbl[1].id = 2
    /\ lastSaved[sessOp.id].saved

\* ------------------------------------------------------------------------
\* core/session/manager: SessionManager.  The cache self.sessions is a set
\* of sessions with one session per id; hasDb tells whether self.db is set;
\* db and conn are the tables and the connection of that store.
\* ------------------------------------------------------------------------
Session(id, messages) == [id |-> id, messages |-> messages, metadata |-> EmptyMeta]

InCache(cache, session_id) == \E c \in cache : c.id = session_id

Cached(cache, session_id) == CHOOSE c \in cache : c.id = session_id

\* a cache that keeps the session it already holds under the id
Put_first(cache, s) == IF InCache(cache, s.id) THEN cache ELSE cache \cup {s}

\* self.sessions[session.id] = session
Put(cache, s) == {c \in cache : c.id # s.id} \cup {s}

\* what load_session makes of a stored session
LoadedSession(db, conn, session_id) ==
    LET r   == load_session(db, conn, session_id)
        row == CHOOSE x \in db.sessions : x.id = session_id
    IN  [id |-> session_id, messages |-> r.messages,
         metadata |-> IF row.metadata # <<>> THEN json_loads(row.metadata) ELSE {}]

\* _load_all_sessions that takes the sessions from list_sessions alone,
\* which carries no messages
load_all_sessions_meta(hasDb, db, conn) ==
    IF ~hasDb THEN [status |-> "ok", sessions |-> {}]
    ELSE IF ~conn THEN [status |-> "NotConnected", sessions |-> {}]
    ELSE [status |-> "ok",
          sessions |-> {[LoadedSession(db, conn, row.id) EXCEPT !.messages = <<>>] :
                           row \in db.sessions}]

\* SessionManager._load_all_sessions
load_all_sessions(hasDb, db, conn) ==
    IF ~hasDb THEN [status |-> "ok", sessions |-> {}]
    ELSE IF ~conn THEN [status |-> "NotConnected", sessions |-> {}]
    ELSE [status |-> "ok",
          sessions |-> {LoadedSession(db, conn, row.id) : row \in db.sessions}]

\* SessionManager.create_session
mgr_create_session(cache, hasDb, db, conn, session_id, stamps) ==
    LET new   == Session(session_id, <<>>)
        saved == IF hasDb THEN save_session(db, conn, new, stamps)
                 ELSE [status |-> "ok", db |-> db]
    IN  [status |-> saved.status, sessions |-> Put(cache, new), db |-> saved.db,
         found |-> TRUE, session |-> new]

\* SessionManager.get_session
mgr_get_session(cache, hasDb, db, conn, session_id) ==
    IF InCache(cache, session_id)
    THEN [status |-> "ok", sessions |-> cache, db |-> db, found |-> TRUE,
          session |-> Cached(cache, session_id)]
    ELSE IF ~hasDb
    THEN [status |-> "ok", sessions |-> cache, db |-> db, found |-> FALSE,
          session |-> NoSession]
    ELSE LET r == load_session(db, conn, session_id)
         IN  IF r.status = "ok" /\ r.found
             THEN [status |-> "ok",
                   sessions |-> Put(cache, LoadedSession(db, conn, session_id)),
                   db |-> db, found |-> TRUE,
                   session |-> LoadedSession(db, conn, session_id)]
             ELSE [status |-> r.status, sessions |-> cache, db |-> db, found |-> FALSE,
                   session |-> NoSession]

\* add_message that appends to the cached session and skips the save
mgr_add_message_unsaved(cache, hasDb, db, conn, session_id, message, stamps) ==
    LET got == mgr_get_session(cache, hasDb, db, conn, session_id)
    IN  IF got.status # "ok" \/ ~got.found THEN got
        ELSE LET new == [got.session EXCEPT !.messages = Append(@, message)]
             IN  [status |-> "ok", sessions |-> Put(got.sessions, new), db |-> db,
                  found |-> TRUE, session |-> new]

\* SessionManager.add_message
mgr_add_message(cache, hasDb, db, conn, session_id, message, stamps) ==
    LET got == mgr_get_session(cache, hasDb, db, conn, session_id)
    IN  IF got.status # "ok" \/ ~got.found THEN got
        ELSE LET new   == [got.session EXCEPT !.messages = Append(@, message)]
                 saved == IF hasDb THEN save_session(db, conn, new, stamps)
                          ELSE [status |-> "ok", db |-> db]
             IN  [status |-> saved.status, sessions |-> Put(got.sessions, new),
                  db |-> saved.db, found |-> TRUE, session |-> new]

\* SessionManager.delete_session
mgr_delete_session(cache, hasDb, db, conn, session_id) ==
    IF ~InCache(cache, session_id)
    THEN [status |-> "ok", sessions |-> cache, db |-> db, found |-> FALSE,
          session |-> NoSession]
    ELSE LET rest == {c \in cache : c.id # session_id}
             r    == IF hasDb THEN delete_session(db, conn, session_id)
                     ELSE [status |-> "ok", db |-> db, found |-> TRUE]
         IN  [status |-> r.status, sessions |-> rest, db |-> r.db, found |-> r.found,
              session |-> NoSession]

\* SessionManager.persist_session
mgr_persist_session(cache, hasDb, db, conn, session_id, stamps) ==
    IF ~hasDb
    THEN [status |-> "ok", sessions |-> cache, db |-> db, found |-> FALSE,
          session |-> NoSession]
    ELSE LET got == mgr_get_session(cache, hasDb, db, conn, session_id)
         IN  IF got.status # "ok" \/ ~got.found THEN got
             ELSE LET saved == save_session(db, conn, got.session, stamps)
                  IN  [status |-> saved.status, sessions |-> got.sessions,
                       db |-> saved.db, found |-> TRUE, session |-> got.session]

\* SessionManager.clear_all
mgr_clear_all(cache, hasDb, db, conn) ==
    LET r == IF hasDb THEN clear_all(db, conn) ELSE [status |-> "ok", db |-> db]
    IN  [status |-> r.status, sessions |-> {}, db |-> r.db, found |-> FALSE,
         session |-> NoSession]

\* ------------------------------------------------------------------------
\* The session manager at work
\* ------------------------------------------------------------------------
\* uuid.uuid4(): the k-th generated id, different from every other id
UuidPool == <<"u1", "u2", "u3">>

ManagerMessages ==
    {[role |-> RoleUser, content |-> <<"a">>, metadata |-> EmptyMeta],
     [role |-> RoleAssistant, content |-> <<"b">>, metadata |-> MetaInt]}

\* the values CURRENT_TIMESTAMP can take for the n inserts of one save: the
\* clock may step once while the messages are inserted
SaveStamps(n) ==
    {[i \in 1..n |-> IF i > n - late /\ clock < MaxClock THEN clock + 1 ELSE clock] :
        late \in 0..n}

MgrRecord(op, id, r) ==
    [op |-> op, status |-> r.status, id |-> id, found |-> r.found, session |-> r.session]

\* the manager and its store after an operation returned r
MgrDone(op, id, r, stamps) ==
    /\ sessions' = r.sessions
    /\ SessStored(r.db)
    /\ clock' = Greatest({clock} \cup Range(stamps))
    /\ mgrOp' = MgrRecord(op, id, r)
    /\ UNCHANGED <<mgrDb, chatOp, user_sessions, botOp>>
    /\ UNCHANGED <<sessConn, sessOp, lastSaved, savedOnConn>>
    /\ UNCHANGED memVars
    /\ UNCHANGED buildVars
    /\ UNCHANGED readVars

\* SessionManager(db) or SessionManager(): the process starts again over
\* the same store
NewManager(hasDb) ==
    LET r == load_all_sessions(hasDb, CurrentSessDb, sessConn)
    IN  /\ mgrDb' = hasDb
        /\ sessions' = r.sessions
        /\ mgrOp' = [op |-> "init", status |-> r.status, id |-> "", found |-> FALSE,
                     session |-> NoSession]
        /\ UNCHANGED <<uuids, chatOp, user_sessions, botOp>>
        /\ UNCHANGED sessVars
        /\ UNCHANGED memVars
        /\ UNCHANGED buildVars
        /\ UNCHANGED readVars

CreateSession(session_id) ==
    /\ \E stamps \in SaveStamps(0) :
          MgrDone("create_session", session_id,
                  mgr_create_session(sessions, mgrDb, CurrentSessDb, sessConn,
                                     session_id, stamps), stamps)
    /\ UNCHANGED uuids

\* create_session() without an id: _generate_id
CreateSessionNew ==
    /\ uuids < MaxUuids
    /\ uuids' = uuids + 1
    /\ \E stamps \in SaveStamps(0) :
          MgrDone("create_session", UuidPool[uuids + 1],
                  mgr_create_session(sessions, mgrDb, CurrentSessDb, sessConn,
                                     UuidPool[uuids + 1], stamps), stamps)

GetSession(session_id) ==
    /\ MgrDone("get_session", session_id,
               mgr_get_session(sessions, mgrDb, CurrentSessDb, sessConn, session_id), <<>>)
    /\ UNCHANGED uuids

MgrAddMessage(session_id, message) ==
    LET n == IF InCache(sessions, session_id)
             THEN Len(Cached(sessions, session_id).messages) + 1 ELSE 0
    IN  /\ n <= MaxSessMsgs
        /\ msg_seq + n <= MaxRowId
        /\ \E stamps \in SaveStamps(n) :
              MgrDone("add_message", session_id,
                      mgr_add_message(sessions, mgrDb, CurrentSessDb, sessConn,
                                      session_id, message, stamps), stamps)
        /\ UNCHANGED uuids

MgrDeleteSession(session_id) ==
    /\ MgrDone("delete_session", session_id,
               mgr_delete_session(sessions, mgrDb, CurrentSessDb, sessConn, session_id),
               <<>>)
    /\ UNCHANGED uuids

PersistSession(session_id) ==
    LET n == IF InCache(sessions, session_id)
             THEN Len(Cached(sessions, session_id).messages) ELSE 0
    IN  /\ msg_seq + n <= MaxRowId
        /\ \E stamps \in SaveStamps(n) :
              MgrDone("persist_session", session_id,
                      mgr_persist_session(sessions, mgrDb, CurrentSessDb, sessConn,
                                          session_id, stamps), stamps)
        /\ UNCHANGED uuids

MgrClearAll ==
    /\ MgrDone("clear_all", "", mgr_clear_all(sessions, mgrDb, CurrentSessDb, sessConn),
               <<>>)
    /\ UNCHANGED uuids

\* SessionManager() over a new store; NewManager(TRUE) gives it the store
InitManager == InitSession

\* the ids in use: the callers' ids and the generated ones
CallerIds == {"s1"}

KnownIds == CallerIds \cup {UuidPool[k] : k \in 1..uuids}

NextManager ==
    \/ Tick
    \/ \E hasDb \in BOOLEAN : NewManager(hasDb)
    \/ \E id \in KnownIds : CreateSession(id)
    \/ CreateSessionNew
    \/ \E id \in KnownIds : GetSession(id)
    \/ \E id \in KnownIds, m \in ManagerMessages : MgrAddMessage(id, m)
    \/ \E id \in KnownIds : MgrDeleteSession(id)
    \/ \E id \in KnownIds : PersistSession(id)
    \/ MgrClearAll

SpecManager == InitManager /\ [][NextManager]_vars

\* ------------------------------------------------------------------------
\* Properties of the session manager
\* ------------------------------------------------------------------------
ManagerMutations == {"create_session", "add_message", "delete_session", "clear_all"}

\* the ids with a row in the sessions table
StoredIds == {r.id : r \in sessions_tbl}

C14_RecoveryAfterRestart ==
    /\ (mgrDb /\ mgrOp.op = "init" /\ mgrOp.status = "ok") =>
          /\ \A id \in StoredIds :
                InCache(sessions, id) /\ Cached(sessions, id).messages = MessagesOf(id)
          /\ \A c \in sessions : c.id \in StoredIds
    /\ (mgrOp.op = "get_session" /\ mgrOp.status = "ok") =>
          /\ mgrOp.found <=> InCache(sessions, mgrOp.id)
          /\ ~mgrOp.found => mgrOp.session = NoSession
          /\ (mgrDb /\ ~mgrOp.found) => mgrOp.id \notin StoredIds

\* a restart over a store that holds two sessions, one of them with two
\* messages stored at different times
C14_Witness ==
    /\ mgrDb /\ mgrOp.op = "init"
    /\ Cardinality(sessions) = 2
    /\ \E c \in sessions :
          /\ Len(c.messages) = 2
          /\ c.messages[1] # c.messages[2]
          /\ \E i, j \in DOMAIN messages_tbl :
                /\ messages_tbl[i].session_id = c.id
                /\ messages_tbl[j].session_id = c.id
                /\ messages_tbl[i].created_at < messages_tbl[j].created_at

\* ------------------------------------------------------------------------
\* core/agent: AgentEngine
\* ------------------------------------------------------------------------
\* the characters of the keyword lists that the texts of the model can hold
PersonalKeywords == {<<"U+6211">>}

InformativeMarkers == {<<"U+662F">>}

PersonalMinLen == 10

InformativeMinLen == 100

InformativeMaxLen == 2000

SimilarQueryChars == 50

SimilarScore == -1

UserFact == <<"U", "s", "e", "r", " ", "F", "a", "c", "t">>

Knowledge == <<"K", "n", "o", "w", "l", "e", "d", "g", "e">>

TagUserFact == <<"u", "s", "e", "r", "_", "f", "a", "c", "t">>

TagKnowledge == <<"k", "n", "o", "w", "l", "e", "d", "g", "e">>

TagAutoExtracted ==
    <<"a", "u", "t", "o", "_", "e", "x", "t", "r", "a", "c", "t", "e", "d">>

has_personal_info(user_message) ==
    \E kw \in PersonalKeywords : Contains(Lower(user_message), Lower(kw))

is_informative(assistant_response) ==
    \E marker \in InformativeMarkers : Contains(Lower(assistant_response), marker)

\* whether _extract_memories searches for similar content
SearchesSimilar(assistant_response) ==
    /\ Len(assistant_response) > InformativeMinLen
    /\ Len(assistant_response) < InformativeMaxLen
    /\ is_informative(assistant_response)

SimilarQuery(assistant_response) ==
    SearchQuery(SubSeq(assistant_response, 1, Min(Len(assistant_response), SimilarQueryChars)),
                1, "")

\* AgentEngine._extract_memories; similar is what the search for similar
\* content returned (used only when the response is searched for)
extract_memories(session_id, user_message, assistant_response, similar) ==
    IF SearchesSimilar(assistant_response) /\ similar.status # "ok"
    THEN [status |-> similar.status, entries |-> <<>>]
    ELSE [status |-> "ok",
          entries |->
             (IF has_personal_info(user_message) /\ Len(user_message) > PersonalMinLen
              THEN <<MemoryEntry("session_" \o session_id, UserFact, user_message,
                                 <<TagUserFact, TagAutoExtracted>>)>>
              ELSE <<>>)
             \o (IF /\ SearchesSimilar(assistant_response)
                     /\ (similar.results = <<>> \/ similar.results[1].score > SimilarScore)
                  THEN <<MemoryEntry("session_" \o session_id, Knowledge,
                                     assistant_response,
                                     <<TagKnowledge, TagAutoExtracted>>)>>
                  ELSE <<>>)]

\* ------------------------------------------------------------------------
\* The agent at work
\* ------------------------------------------------------------------------
PersonalMessage == <<"U+6211", " ", "a", "a", "a", "a", "a", "a", "a", "a", "a">>

UserMessages == {<<"a">>, <<"*">>, PersonalMessage}

\* what llm.chat returns: a response content, or an error of the provider
LLMContents == {<<"b">>}

LLMOutcomes ==
    {[status |-> "ok", content |-> c] : c \in LLMContents}
        \cup {[status |-> "LLMError", content |-> <<>>]}

AgentConfigs ==
    [max_tokens : {5, MaxBudget}, system_prompt : {<<"a">>},
     memory_max_results : {DefaultMaxResults}, memory_min_score : {-2}]

\* the record of a chat call: what it returned (status "ok") or that it
\* raised, the session it used with the messages that session had before,
\* and the message list it passed to the LLM
ChatRecord(status, session_id, user_message, content, before, context, created) ==
    [op |-> "chat", status |-> status, session_id |-> session_id,
     user_message |-> user_message, content |-> content, before |-> before,
     sent |-> context.messages, truncated |-> context.truncated,
     built |-> context.status = "ok",
     memory_used |-> Len(context.memory_results), created |-> created]

NoContext ==
    [status |-> "none", messages |-> <<>>, token_count |-> 0, memory_results |-> <<>>,
     truncated |-> FALSE]

\* the manager, the session store and the knowledge store after a chat call
ChatDone(cache, sdb, mdb, ids, record) ==
    /\ sessions' = cache
    /\ SessStored(sdb)
    /\ memories' = mdb.rows
    /\ memories_fts' = mdb.fts
    /\ mem_seq' = mdb.seq
    /\ issued' = Greatest({issued} \cup Range(ids))
    /\ chatOp' = record
    /\ UNCHANGED <<mgrDb, mgrOp, memConn, memOp, files>>
    /\ UNCHANGED <<sessConn, clock, sessOp, lastSaved, savedOnConn>>
    /\ default_counter' = IF record.built
                           THEN get_token_counter(default_counter, DefaultModel)
                           ELSE default_counter
    /\ UNCHANGED <<session, config, hasMemory, built>>
    /\ UNCHANGED readVars

\* the number of messages the cached sessions hold
RECURSIVE CachedMessages(_)
CachedMessages(cache) ==
    IF cache = {} THEN 0
    ELSE LET c == CHOOSE x \in cache : TRUE
         IN  Len(c.messages) + CachedMessages(cache \ {c})

\* AgentEngine.chat(user_message, session_id, use_memory); session_id ""
\* stands for None, llm for what the provider answers; the last two
\* arguments bound the ids generated and the messages held
ChatCall(user_message, session_id, use_memory, llm, uuid_bound, msg_bound) ==
    /\ session_id = "" => uuids < uuid_bound
    /\ uuids' = IF session_id = "" THEN uuids + 1 ELSE uuids
    /\ CachedMessages(sessions) + 2 <= msg_bound
    /\ \E got \in {mgr_get_session(sessions, mgrDb, CurrentSessDb, sessConn, session_id)} :
        LET fresh  == session_id = "" \/ (got.status = "ok" /\ ~got.found)
            new_id == IF session_id = "" THEN UuidPool[uuids + 1] ELSE session_id
        IN
        \E opened \in {IF ~fresh THEN got
                        ELSE mgr_create_session(sessions, mgrDb, CurrentSessDb, sessConn,
                                                new_id, <<>>)} :
        LET before == opened.session.messages
            asked  == [opened.session EXCEPT
                          !.messages = Append(@, Message(RoleUser, user_message))]
            query  == IF use_memory THEN user_message ELSE <<>>
            q      == SearchQuery(query, config.memory_max_results, "")
        IN
        IF opened.status # "ok"
        THEN ChatDone(opened.sessions, opened.db, CurrentDb, <<>>,
                      ChatRecord(opened.status, new_id, user_message, <<>>, <<>>,
                                 NoContext, fresh))
        ELSE
        \E matches \in {IF hasMemory THEN QueryMatches(memories, memories_fts, q) ELSE {}} :
        \E score \in ScoreFunctions(matches) :
        \E context \in {build(config, hasMemory, asked.messages, query,
                               search(memories, memories_fts, memConn, q, score))} :
        LET answered == [asked EXCEPT
                            !.messages = Append(@, Message(RoleAssistant, llm.content))]
            sq       == SimilarQuery(llm.content)
        IN
        IF context.status # "ok" \/ llm.status # "ok"
        THEN ChatDone(Put(opened.sessions, asked), opened.db, CurrentDb, <<>>,
                      ChatRecord(IF context.status # "ok" THEN context.status
                                 ELSE llm.status,
                                 new_id, user_message, <<>>, before, context, fresh))
        ELSE IF ~(use_memory /\ hasMemory)
        THEN ChatDone(Put(opened.sessions, answered), opened.db, CurrentDb, <<>>,
                      ChatRecord("ok", new_id, user_message, llm.content, before,
                                 context, fresh))
        ELSE
        \E similar \in {IF SearchesSimilar(llm.content)
                         THEN QueryMatches(memories, memories_fts, sq) ELSE {}} :
        \E sim \in ScoreFunctions(similar) :
        \E found \in {extract_memories(new_id, user_message, llm.content,
                                        search(memories, memories_fts, memConn, sq, sim))} :
        \E r \in {InsertAll(CurrentDb, memConn, found.entries, <<>>)} :
        LET ended == IF found.status # "ok" THEN found.status ELSE r.status
        IN  /\ r.db.seq <= MaxFacts
            /\ ChatDone(Put(opened.sessions, answered), opened.db,
                        IF found.status = "ok" THEN r.db ELSE CurrentDb,
                        IF found.status = "ok" THEN r.ids ELSE <<>>,
                        ChatRecord(ended, new_id, user_message,
                                   IF ended = "ok" THEN llm.content ELSE <<>>,
                                   before, context, fresh))

\* a chat call made directly on the agent
Chat(user_message, session_id, use_memory, llm) ==
    /\ ChatCall(user_message, session_id, use_memory, llm, MaxUuids, MaxChatMsgs)
    /\ UNCHANGED <<user_sessions, botOp>>

InitAgent ==
    /\ InitSessionDb
    /\ sessions = {}
    /\ mgrDb \in BOOLEAN
    /\ uuids = 0
    /\ mgrOp = NoMgrOp
    /\ chatOp = NoChat
    /\ user_sessions = NoUsers
    /\ botOp = NoBotOp
    /\ txn = NoTxn
    /\ reader = NoRead
    /\ memories = <<>>
    /\ memories_fts = {}
    /\ mem_seq = 0
    /\ issued = 0
    /\ memConn = TRUE
    /\ memOp = NoMemOp
    /\ files = [p \in Paths |-> [exists |-> FALSE, text |-> <<>>]]
    /\ session = <<>>
    /\ config \in AgentConfigs
    /\ hasMemory \in BOOLEAN
    /\ built = NoBuild
    /\ default_counter = NoCounter

\* the agent over its session manager; the process may start again over
\* the same stores
NextAgent ==
    \/ \E user_message \in UserMessages, session_id \in KnownIds \cup {""},
          use_memory \in BOOLEAN, llm \in LLMOutcomes :
             Chat(user_message, session_id, use_memory, llm)
    \/ NewManager(mgrDb)

SpecAgent == InitAgent /\ [][NextAgent]_vars

\* ------------------------------------------------------------------------
\* Properties of the agent
\* ------------------------------------------------------------------------
ChatReturned == chatOp.op = "chat" /\ chatOp.status = "ok"

\* the two messages a chat call that returned has appended to its session
ChatAppended ==
    <<Message(RoleUser, chatOp.user_message), Message(RoleAssistant, chatOp.content)>>

\* C13: after chat returns for a session of a manager with a store, the
\* user message and the assistant response that chat appended are saved in
\* the session store: a new manager on the same store recovers the session
\* with these two messages at its end
C13_ChatSaved ==
    (ChatReturned /\ mgrDb) =>
        \E c \in load_all_sessions(TRUE, CurrentSessDb, sessConn).sessions :
            /\ c.id = chatOp.session_id
            /\ Len(c.messages) >= 2
            /\ Suffix(c.messages, 2) = ChatAppended

\* ------------------------------------------------------------------------
\* save_session and load_session statement by statement: the writer's
\* statements run in the transaction its first INSERT opens and are seen by
\* other connections at commit; the reader's two SELECTs run outside any
\* transaction, each on the committed tables of its moment
\* ------------------------------------------------------------------------
ReaderIds == {"s1"}

WrittenSessions ==
    [id : ReaderIds, messages : SeqsUpTo(ManagerMessages, MaxSessMsgs),
     metadata : {EmptyMeta, MetaInt}]

\* what a load of the session id returns on the committed tables db
StoredState(db, session_id) ==
    IF \E r \in db.sessions : r.id = session_id
    THEN [found |-> TRUE, session |-> LoadedSession(db, TRUE, session_id)]
    ELSE [found |-> FALSE, session |-> NoSession]

ReadDone ==
    /\ UNCHANGED <<sessConn, clock, sessOp, lastSaved, savedOnConn>>
    /\ UNCHANGED memVars
    /\ UNCHANGED buildVars
    /\ UNCHANGED agentVars

\* save_session, INSERT OR REPLACE INTO sessions
SaveReplace(s) ==
    /\ txn.pc = "idle"
    /\ sessConn
    /\ msg_seq + Len(s.messages) <= MaxRowId
    /\ txn' = [pc |-> "replaced", session |-> s,
               sessions |-> {r \in sessions_tbl : r.id # s.id}
                               \cup {[id |-> s.id, metadata |-> json_dumps(s.metadata)]},
               messages |-> messages_tbl, seq |-> msg_seq, left |-> s.messages]
    /\ UNCHANGED <<sessions_tbl, messages_tbl, msg_seq, reader>>
    /\ ReadDone

\* save_session, DELETE FROM messages WHERE session_id = ?
SaveDelete ==
    /\ txn.pc = "replaced"
    /\ txn' = [txn EXCEPT !.pc = "deleted",
                          !.messages = SelectSeq(@, LAMBDA r : r.session_id # txn.session.id)]
    /\ UNCHANGED <<sessions_tbl, messages_tbl, msg_seq, reader>>
    /\ ReadDone

\* save_session, INSERT INTO messages for the next message
SaveInsert ==
    /\ txn.pc = "deleted"
    /\ txn.left # <<>>
    /\ txn' = [txn EXCEPT
                  !.messages = @ \o NewMessageRows(txn.session.id, <<Head(txn.left)>>,
                                                    txn.seq, <<clock>>),
                  !.seq = @ + 1,
                  !.left = Tail(@)]
    /\ UNCHANGED <<sessions_tbl, messages_tbl, msg_seq, reader>>
    /\ ReadDone

\* save_session, commit: the other connection sees the new rows from now on
SaveCommit ==
    /\ txn.pc = "deleted"
    /\ txn.left = <<>>
    /\ SessStored([sessions |-> txn.sessions, messages |-> txn.messages, seq |-> txn.seq])
    /\ txn' = NoTxn
    /\ reader' = IF reader.pc = "row"
                  THEN [reader EXCEPT !.seen = @ \cup
                           {StoredState([sessions |-> txn.sessions,
                                         messages |-> txn.messages, seq |-> txn.seq],
                                        reader.id)}]
                  ELSE reader
    /\ ReadDone

\* load_session, SELECT * FROM sessions WHERE id = ? and fetchone
LoadRow(session_id) ==
    /\ reader.pc # "row"
    /\ LET rows == {r \in sessions_tbl : r.id = session_id}
           now  == StoredState(CurrentSessDb, session_id)
       IN  reader' = IF rows = {}
                     THEN [pc |-> "done", id |-> session_id, row |-> {}, found |-> FALSE,
                           session |-> NoSession, seen |-> {now}]
                     ELSE [pc |-> "row", id |-> session_id, row |-> rows, found |-> TRUE,
                           session |-> NoSession, seen |-> {now}]
    /\ UNCHANGED <<sessions_tbl, messages_tbl, msg_seq, txn>>
    /\ ReadDone

\* load_session, SELECT * FROM messages ... ORDER BY created_at ASC and the
\* Session built from the row read before and these messages
LoadMessages ==
    /\ reader.pc = "row"
    /\ LET row  == CHOOSE r \in reader.row : TRUE
           rows == OrderByCreatedAt(
                      SelectSeq(messages_tbl, LAMBDA r : r.session_id = reader.id))
       IN  reader' = [reader EXCEPT
                        !.pc = "done",
                        !.session =
                            [id |-> row.id,
                             messages |-> [i \in 1..Len(rows) |-> RowMessage(rows[i])],
                             metadata |-> IF row.metadata # <<>>
                                          THEN json_loads(row.metadata) ELSE {}]]
    /\ UNCHANGED <<sessions_tbl, messages_tbl, msg_seq, txn>>
    /\ ReadDone

NextReader ==
    \/ \E s \in WrittenSessions : SaveReplace(s)
    \/ SaveDelete
    \/ SaveInsert
    \/ SaveCommit
    \/ \E id \in ReaderIds : LoadRow(id)
    \/ LoadMessages

SpecReader == InitSession /\ [][NextReader]_vars

\* C15: a load on another connection that runs while a save of the same id
\* is in progress returns the session as it was stored before the save or
\* as it is stored after it (row and message list of one and the same
\* committed state), never parts of both
C15_ReadsOneState ==
    reader.pc = "done" =>
        [found |-> reader.found, session |-> reader.session] \in reader.seen

\* ------------------------------------------------------------------------
\* Properties of insert and search
\* ------------------------------------------------------------------------
InsertingOps == {"insert", "index_file", "reindex"}

\* C16: every id a successful insert returns (directly, or through
\* index_file and reindex) is greater than every id returned before on the
\* store, whatever inserts, clears and reindexes came in between; no id is
\* used again after its entry was deleted
C16_IdsIncrease ==
    [][(memOp'.op \in InsertingOps /\ memOp'.status = "ok") =>
          \A k \in DOMAIN memOp'.ids :
              /\ memOp'.ids[k] > issued
              /\ \A j \in 1..(k - 1) : memOp'.ids[j] < memOp'.ids[k]]_vars

\* an insert after entries with lower ids were deleted
C16_Witness ==
    /\ memOp.op = "insert" /\ memOp.status = "ok"
    /\ memOp.ids = <<issued>>
    /\ Len(memories) = 1
    /\ issued >= 3

\* C17: a search whose sanitized query text is empty returns an empty
\* list and raises no error
C17_EmptyQueryNoError ==
    (memOp.op = "search" /\ memConn /\ sanitize_fts_query(memOp.query) = <<>>) =>
        memOp.status = "ok" /\ memOp.results = <<>>

\* C18: whatever integer the limit is (0, negative, above 100), search does
\* not reject the query on its account (it succeeds exactly when the query
\* text is accepted) and returns at most min(max(limit, 1), 100) results
C18_LimitClamped ==
    (memOp.op = "search" /\ memConn) =>
        /\ memOp.status = "ok" <=> fts5Parse(sanitize_fts_query(memOp.query)).ok
        /\ memOp.status = "ok" => Len(memOp.results) <= Min(Max(memOp.limit, 1), 100)

\* a search with a limit below 1 that matches two entries and returns one
C18_Witness ==
    /\ memOp.op = "search" /\ memOp.status = "ok"
    /\ memOp.limit < 1
    /\ Len(memOp.results) = 1
    /\ Cardinality(QueryMatches(memories, memories_fts,
                                SearchQuery(memOp.query, memOp.limit, memOp.arg))) >= 2

QueryTerms(text) == Range(unicode61(sanitize_fts_query(text), 1, <<>>))

EntryTerms(entry) ==
    Range(unicode61(entry.content, 1, <<>>)) \cup Range(unicode61(entry.section, 1, <<>>))
        \cup UNION {Range(unicode61(entry.tags[k], 1, <<>>)) : k \in DOMAIN entry.tags}

\* C20: search returns only entries in which the query terms occur (in
\* content, section or tags; a term followed by '*' occurs where a word
\* starts with it): an entry matching no query term is never returned
C20_OnlyMatchingEntries ==
    (memOp.op = "search" /\ memOp.status = "ok") =>
        \A k \in DOMAIN memOp.results :
            /\ QueryTerms(memOp.query) # {}
            /\ \A t \in QueryTerms(memOp.query) :
                  \E w \in EntryTerms(memOp.results[k].entry) :
                      \/ w = t
                      \/ (\E i \in DOMAIN memOp.query : memOp.query[i] = "*") /\ IsPrefix(t, w)

\* two different entries stored, one holding the query term and one not:
\* the search returns exactly the one that holds it
C20_Witness ==
    /\ memOp.op = "search" /\ memOp.status = "ok"
    /\ memOp.query = <<"a">> /\ memOp.arg = ""
    /\ Len(memories) = 2
    /\ \E i \in DOMAIN memories : <<"a">> \notin EntryTerms(RowEntry(memories[i]))
    /\ Len(memOp.results) = 1
    /\ <<"a">> \in EntryTerms(memOp.results[1].entry)

\* ------------------------------------------------------------------------
\* Both stores, opened and closed
\* ------------------------------------------------------------------------
\* MemoryDatabase.create_schema: CREATE ... IF NOT EXISTS on a store that has
\* its tables
mem_create_schema(db, conn) ==
    IF ~conn THEN [status |-> "NotConnected", db |-> db, ids |-> <<>>]
    ELSE [status |-> "ok", db |-> db, ids |-> <<>>]

\* MemoryDatabase.get_all: the stored entries (their order is by created_at)
get_all(db, conn) ==
    IF ~conn THEN [status |-> "NotConnected", entries |-> {}]
    ELSE [status |-> "ok", entries |-> {RowEntry(r) : r \in Range(db.rows)}]

\* MemoryDatabase.count
mem_count(db, conn) ==
    IF ~conn THEN [status |-> "NotConnected", count |-> 0]
    ELSE [status |-> "ok", count |-> Len(db.rows)]

\* SessionDatabase.create_schema
sess_create_schema(db, conn) ==
    IF ~conn THEN [status |-> "NotConnected", db |-> db]
    ELSE [status |-> "ok", db |-> db]

\* SessionDatabase.list_sessions: the ids of the stored sessions (their
\* order is by updated_at)
list_sessions(db, conn) ==
    IF ~conn THEN [status |-> "NotConnected", ids |-> {}]
    ELSE [status |-> "ok", ids |-> {r.id : r \in db.sessions}]

\* SessionDatabase.count
sess_count(db, conn) ==
    IF ~conn THEN [status |-> "NotConnected", count |-> 0]
    ELSE [status |-> "ok", count |-> Cardinality(db.sessions)]

\* an operation of the memory store that returned with status and wrote nothing
MemAnswered(op, status) ==
    /\ memOp' = [op |-> op, status |-> status, arg |-> "", query |-> <<>>, limit |-> 0,
                 ids |-> <<>>, results |-> <<>>, again |-> FALSE]
    /\ UNCHANGED <<memories, memories_fts, mem_seq, issued, memConn, files>>
    /\ UNCHANGED buildVars
    /\ UNCHANGED sessVars
    /\ UNCHANGED agentVars
    /\ UNCHANGED readVars

MemCreateSchema ==
    /\ Stored("create_schema", "", mem_create_schema(CurrentDb, memConn))
    /\ UNCHANGED <<memConn, files>>
    /\ UNCHANGED buildVars
    /\ UNCHANGED sessVars
    /\ UNCHANGED agentVars
    /\ UNCHANGED readVars

GetAll == MemAnswered("get_all", get_all(CurrentDb, memConn).status)

MemCount == MemAnswered("count", mem_count(CurrentDb, memConn).status)

\* an operation of the session store that returned with status and wrote nothing
SessAnswered(op, status) ==
    /\ sessOp' = SessRecord(op, status, "", FALSE, <<>>, FALSE)
    /\ UNCHANGED <<sessions_tbl, messages_tbl, msg_seq, sessConn, clock,
                   lastSaved, savedOnConn>>
    /\ UNCHANGED memVars
    /\ UNCHANGED buildVars
    /\ UNCHANGED agentVars
    /\ UNCHANGED readVars

SessCreateSchema ==
    LET r == sess_create_schema(CurrentSessDb, sessConn)
    IN  /\ SessStored(r.db)
        /\ sessOp' = SessRecord("create_schema", r.status, "", FALSE, <<>>, FALSE)
        /\ UNCHANGED <<sessConn, clock, lastSaved, savedOnConn>>
        /\ UNCHANGED memVars
        /\ UNCHANGED buildVars
        /\ UNCHANGED agentVars
        /\ UNCHANGED readVars

ListSessions == SessAnswered("list_sessions", list_sessions(CurrentSessDb, sessConn).status)

SessCount == SessAnswered("count", sess_count(CurrentSessDb, sessConn).status)

\* both stores exist on disk with their tables and no connection is open
InitStores ==
    /\ issued = 0
    /\ memories = <<>>
    /\ memories_fts = {}
    /\ mem_seq = 0
    /\ memConn = FALSE
    /\ memOp = NoMemOp
    /\ files = [p \in Paths |-> [exists |-> FALSE, text |-> <<>>]]
    /\ session = <<>>
    /\ config = [max_tokens |-> MaxBudget, system_prompt |-> <<>>,
                 memory_max_results |-> DefaultMaxResults, memory_min_score |-> 0]
    /\ hasMemory = TRUE
    /\ built = NoBuild
    /\ default_counter = NoCounter
    /\ sessions_tbl = {}
    /\ messages_tbl = <<>>
    /\ msg_seq = 0
    /\ sessConn = FALSE
    /\ clock = 0
    /\ sessOp = NoSessOp
    /\ lastSaved = [id \in SessionIds |-> [saved |-> FALSE, messages |-> <<>>]]
    /\ savedOnConn = {}
    /\ NoCallers

StoreEntries == {MemoryEntry("p1", <<"b">>, <<"a", " ", "b">>, <<>>)}

StoreQueries == {SearchQuery(<<"b">>, 1, "")}

StoreSessionIds == {"s1"}

StoreSessions ==
    {s \in Sessions : s.id \in StoreSessionIds /\ Len(s.messages) = 1
                        /\ s.messages[1].metadata = EmptyMeta}

NextStores ==
    \/ MemConnect
    \/ MemClose
    \/ MemCreateSchema
    \/ \E entry \in StoreEntries : Insert(entry)
    \/ \E q \in StoreQueries : Search(q)
    \/ GetAll
    \/ Clear
    \/ MemCount
    \/ SessConnect
    \/ SessClose
    \/ SessCreateSchema
    \/ \E s \in StoreSessions : SaveSession(s)
    \/ \E id \in StoreSessionIds : LoadSession(id)
    \/ \E id \in StoreSessionIds : DeleteSession(id)
    \/ ListSessions
    \/ ClearAll
    \/ SessCount

SpecStores == InitStores /\ [][NextStores]_vars

MemoryDatabaseOps == {"create_schema", "insert", "search", "get_all", "clear", "count"}

SessionDatabaseOps ==
    {"create_schema", "save", "load", "delete", "list_sessions", "clear_all", "count"}

\* C21: every operation of MemoryDatabase (create_schema, insert, search,
\* get_all, clear, count) and of SessionDatabase (create_schema,
\* save_session, load_session, delete_session, list_sessions, clear_all,
\* count) called while the store has no connection (before connect() or
\* after close()) fails with 'Not connected' and changes no stored data
C21_NotConnectedFails ==
    [][/\ (~memConn /\ memOp'.op \in MemoryDatabaseOps) =>
             /\ memOp'.status = "NotConnected"
             /\ UNCHANGED <<memories, memories_fts, mem_seq>>
       /\ (~sessConn /\ sessOp'.op \in SessionDatabaseOps) =>
             /\ sessOp'.status = "NotConnected"
             /\ UNCHANGED <<sessions_tbl, messages_tbl, msg_seq>>]_vars

\* both stores hold data, were closed, and then refused a write
C21_Witness ==
    /\ ~memConn /\ memOp.op = "clear" /\ memOp.status = "NotConnected"
    /\ Len(memories) > 0
    /\ ~sessConn /\ sessOp.op = "clear_all" /\ sessOp.status = "NotConnected"
    /\ sessions_tbl # {}

\* ------------------------------------------------------------------------
\* The parser on its own
\* ------------------------------------------------------------------------
\* MarkdownParser.parse_file
parse_file(file, file_path) ==
    IF ~file.exists THEN [status |-> "FileNotFoundError", entries |-> <<>>]
    ELSE [status |-> "ok", entries |-> parse_content(file.text, file_path)]

ParseFile(path) ==
    LET r == parse_file(files[path], path)
    IN  /\ memOp' = [op |-> "parse_file", status |-> r.status, arg |-> path,
                     query |-> <<>>, limit |-> 0, ids |-> <<>>, results |-> r.entries,
                     again |-> FALSE]
        /\ UNCHANGED <<memories, memories_fts, mem_seq, issued, memConn, files>>
        /\ UNCHANGED buildVars
        /\ UNCHANGED sessVars
        /\ UNCHANGED agentVars
        /\ UNCHANGED readVars

\* lines of the documents: empty, text, blank, bare marker, headings of two
\* levels with spaces around the label, an indented marker, text with a
\* trailing space
LineShapes ==
    {<<>>, <<"a">>, <<" ">>, <<"#">>, <<"#", " ", "a">>, <<"#", "#", "b", " ">>,
     <<" ", "#", "a">>, <<"b", " ">>}

ParserDocs == {JoinLines(ls) : ls \in SeqsUpTo(LineShapes, MaxLines) \ {<<>>}}

InitParser ==
    /\ issued = 0
    /\ memories = <<>>
    /\ memories_fts = {}
    /\ mem_seq = 0
    /\ memConn = TRUE
    /\ memOp = NoMemOp
    /\ files \in [Paths -> [exists : {TRUE}, text : ParserDocs]]
    /\ session = <<>>
    /\ config = [max_tokens |-> MaxBudget, system_prompt |-> <<>>,
                 memory_max_results |-> DefaultMaxResults, memory_min_score |-> 0]
    /\ hasMemory = TRUE
    /\ built = NoBuild
    /\ default_counter = NoCounter
    /\ InitSessionDb
    /\ NoCallers

NextParser ==
    \/ \E path \in Paths : ParseFile(path)
    \/ \E path \in Paths : RemoveFile(path)

SpecParser == InitParser /\ [][NextParser]_vars

\* --- what a document should parse to, read off its characters ---
SortedSeq(S) ==
    [k \in 1..Cardinality(S) |-> CHOOSE x \in S : Cardinality({y \in S : y <= x}) = k]

\* positions where the lines of doc start, in order; a line ends before the
\* next newline
LineStarts(doc) == SortedSeq({1} \cup {i + 1 : i \in {j \in DOMAIN doc : doc[j] = "\n"}})

LineEnd(doc, start) ==
    LET nl == {j \in start..Len(doc) : doc[j] = "\n"}
    IN  IF nl = {} THEN Len(doc) ELSE (CHOOSE j \in nl : \A x \in nl : j <= x) - 1

Trimmed(s) ==
    LET ns == {i \in DOMAIN s : s[i] \notin WhiteSpace}
    IN  IF ns = {} THEN <<>>
        ELSE SubSeq(s, CHOOSE i \in ns : \A x \in ns : i <= x,
                       CHOOSE i \in ns : \A x \in ns : i >= x)

\* the label of a heading line: the text after its markers, trimmed
LabelOf(line) ==
    LET t    == Trimmed(line)
        rest == {i \in DOMAIN t : t[i] # "#"}
    IN  IF rest = {} THEN <<>>
        ELSE Trimmed(SubSeq(t, CHOOSE i \in rest : \A x \in rest : i <= x, Len(t)))

\* a heading line: '#' is its first character or, where indented headings
\* count, its first non-space character
IsHeadingLine(line, indented) ==
    LET t == IF indented THEN Trimmed(line) ELSE line
    IN  t # <<>> /\ t[1] = "#"

\* <<section, content>> of every heading of doc that has a label and a body
ExpectedEntries(doc, indented) ==
    LET starts == LineStarts(doc)
        lineAt(st) == SubSeq(doc, st, LineEnd(doc, st))
        heads  == SortedSeq({st \in Range(starts) : IsHeadingLine(lineAt(st), indented)})
        body(k) == Trimmed(SubSeq(doc, LineEnd(doc, heads[k]) + 1,
                                  IF k < Len(heads) THEN heads[k + 1] - 1 ELSE Len(doc)))
        all    == [k \in 1..Len(heads) |-> <<LabelOf(lineAt(heads[k])), body(k)>>]
    IN  SelectSeq(all, LAMBDA e : e[1] # <<>> /\ e[2] # <<>>)

Parsed == [i \in 1..Len(memOp.results) |->
              <<memOp.results[i].section, memOp.results[i].content>>]

ParseDone == memOp.op = "parse_file" /\ memOp.status = "ok"

C30_IndentedHeadings ==
    ParseDone => Parsed = ExpectedEntries(files[memOp.arg].text, TRUE)

\* ------------------------------------------------------------------------
\* index_file and its inserts
\* ------------------------------------------------------------------------
\* the rows added by a step, in insertion order
AddedRows == SubSeq(memories', Len(memories) + 1, Len(memories'))

Searchable(row) ==
    \E f \in memories_fts' :
        f.rowid = row.id /\ f.content = row.content /\ f.section = row.section

\* C23: index_file(path) inserts the parsed entries in parse order and
\* returns exactly one id per parsed entry; if the k-th insert fails, the
\* error reaches the caller and the k-1 entries inserted before it stay
\* stored and searchable (nothing is rolled back)
C23_IndexFileNoRollback ==
    [][(memConn /\ memOp'.op = "index_file" /\ files[memOp'.arg].exists) =>
          LET parsed == ParsedEntries(memOp'.arg)
              n      == IF memOp'.status = "ok" THEN Len(parsed) ELSE memOp'.failed - 1
          IN  /\ memOp'.status \in {"ok", "OperationalError"}
              /\ memOp'.status = "ok" =>
                    /\ Len(memOp'.ids) = Len(parsed)
                    /\ \A k \in 1..Len(parsed) : memOp'.ids[k] = AddedRows[k].id
              /\ SubSeq(memories', 1, Len(memories)) = memories
              /\ StoredEntries(AddedRows) = SubSeq(parsed, 1, n)
              /\ \A k \in 1..n : Searchable(AddedRows[k])
              /\ memories_fts \subseteq memories_fts']_vars

\* the second insert of a file of two entries failed: the first is stored
C23_Witness ==
    /\ memOp.op = "index_file" /\ memOp.status = "OperationalError"
    /\ memOp.failed = 2
    /\ Len(ParsedEntries(memOp.arg)) = 2
    /\ Len(memories) >= 1
    /\ StoredEntries(memories)[Len(memories)] = ParsedEntries(memOp.arg)[1]

\* ------------------------------------------------------------------------
\* The token counter on its own
\* ------------------------------------------------------------------------
CountedMessages ==
    {Message(role, content) :
        role \in {RoleSystem, RoleUser, RoleAssistant},
        content \in {<<>>, <<"a">>, <<"U+6211", "a">>}}

ModelNames == {<<"gpt-4">>, <<"text-", "davinci", "-003">>, <<"gpt-2">>, <<"claude">>}

CountedTexts == {<<>>, <<"a">>, <<"U+6211", "a">>}

\* count_tokens(text, model) of core/utils
ModuleCountTokens(text, model) ==
    LET r == module_count_tokens(default_counter, text, model)
    IN  /\ built' = [op |-> "count_tokens", query |-> text, model |-> model,
                     result |-> [NoBuild.result EXCEPT
                                    !.status = "ok", !.token_count = r.value]]
        /\ default_counter' = r.counter
        /\ UNCHANGED <<session, config, hasMemory>>
        /\ UNCHANGED memVars
        /\ UNCHANGED sessVars
        /\ UNCHANGED agentVars
        /\ UNCHANGED readVars

\* count_messages(messages, model) of core/utils, applied to the message
\* list at hand
ModuleCountMessages(model) ==
    LET r == module_count_messages(default_counter, session, model)
    IN  /\ built' = [op |-> "module_count_messages", query |-> <<>>, model |-> model,
                     result |-> [NoBuild.result EXCEPT
                                    !.status = "ok", !.token_count = r.value]]
        /\ default_counter' = r.counter
        /\ UNCHANGED <<session, config, hasMemory>>
        /\ UNCHANGED memVars
        /\ UNCHANGED sessVars
        /\ UNCHANGED agentVars
        /\ UNCHANGED readVars

\* TokenCounter.count_messages applied to the message list at hand
CountMessages ==
    /\ built' = [op |-> "count_messages", query |-> <<>>,
                 result |-> [NoBuild.result EXCEPT
                                !.status = "ok",
                                !.token_count = count_messages(session)]]
    /\ UNCHANGED <<session, config, hasMemory, default_counter>>
    /\ UNCHANGED memVars
    /\ UNCHANGED sessVars
    /\ UNCHANGED agentVars
    /\ UNCHANGED readVars

InitCounter ==
    /\ session \in SeqsUpTo(CountedMessages, MaxMsgs)
    /\ config = [max_tokens |-> MaxBudget, system_prompt |-> <<>>,
                 memory_max_results |-> DefaultMaxResults, memory_min_score |-> 0]
    /\ hasMemory = FALSE
    /\ built = NoBuild
    /\ default_counter = NoCounter
    /\ issued = 0
    /\ memories = <<>>
    /\ memories_fts = {}
    /\ mem_seq = 0
    /\ memConn = TRUE
    /\ memOp = NoMemOp
    /\ files = [p \in Paths |-> [exists |-> FALSE, text |-> <<>>]]
    /\ InitSessionDb
    /\ NoCallers

NextCounter ==
    \/ CountMessages
    \/ \E text \in CountedTexts, model \in ModelNames : ModuleCountTokens(text, model)
    \/ \E model \in ModelNames : ModuleCountMessages(model)

SpecCounter == InitCounter /\ [][NextCounter]_vars

\* 3 for the reply, and for every message 3 and the tokens of its role and
\* of its content
RECURSIVE ExpectedCount(_)
ExpectedCount(ms) ==
    IF ms = <<>> THEN 3
    ELSE ExpectedCount(Tail(ms)) + 3 + Len(Head(ms).role) + Len(Head(ms).content)

\* C24: count_messages(ms) = 3 + the sum over every message m of ms of
\* (3 + count(m.role) + count(m.content)), for every message sequence ms,
\* the empty one included
C24_CountMessages ==
    built.op = "count_messages" => built.result.token_count = ExpectedCount(session)

\* ------------------------------------------------------------------------
\* delete_session on the store and on the manager
\* ------------------------------------------------------------------------
\* a manager on a store that a second holder of the store (another manager,
\* another process) saves to and deletes from
NextSharedStore ==
    \/ Tick
    \/ NewManager(TRUE)
    \/ \E id \in StoreSessionIds : CreateSession(id)
    \/ \E id \in StoreSessionIds : GetSession(id)
    \/ \E id \in StoreSessionIds : MgrDeleteSession(id)
    \/ \E s \in StoreSessions : SaveSession(s)
    \/ \E id \in StoreSessionIds : DeleteSession(id)

SpecSharedStore == InitSession /\ [][NextSharedStore]_vars

InStore(tbl, session_id) == \E r \in tbl : r.id = session_id

\* C25: delete_session(id), on SessionDatabase and on SessionManager,
\* returns true iff a session with that id existed before the call (for the
\* manager: in the cache or in the store), and afterwards the session is
\* found neither in the cache nor in the store
C25_DeleteReturnsExisted ==
    [][/\ (sessOp' # sessOp /\ sessOp'.op = "delete" /\ sessOp'.status = "ok") =>
             /\ sessOp'.found = InStore(sessions_tbl, sessOp'.id)
             /\ ~InStore(sessions_tbl', sessOp'.id)
       /\ (mgrOp' # mgrOp /\ mgrOp'.op = "delete_session" /\ mgrOp'.status = "ok") =>
             /\ mgrOp'.found = (\/ InCache(sessions, mgrOp'.id)
                                \/ mgrDb /\ InStore(sessions_tbl, mgrOp'.id))
             /\ ~InCache(sessions', mgrOp'.id)
             /\ mgrDb => ~InStore(sessions_tbl', mgrOp'.id)]_vars

\* ------------------------------------------------------------------------
\* The history of a session over chat calls
\* ------------------------------------------------------------------------
\* the history the manager holds or finds for an id before a call
HistoryBefore(session_id) ==
    IF InCache(sessions, session_id) THEN Cached(sessions, session_id).messages
    ELSE IF mgrDb /\ InStore(sessions_tbl, session_id)
    THEN load_session(CurrentSessDb, sessConn, session_id).messages
    ELSE <<>>

RECURSIVE CostOfRecent(_, _)
CostOfRecent(conv, k) ==
    IF k = 0 THEN 0
    ELSE CostOfRecent(conv, k - 1)
            + 3 + Len(conv[Len(conv) - k + 1].role) + Len(conv[Len(conv) - k + 1].content)

\* how many of the most recent messages fit when each is charged its own
\* cost: the walk stops at the first that does not fit
FittingRecent(conv, budget) ==
    LET fits == {k \in 0..Len(conv) : CostOfRecent(conv, k) <= budget}
    IN  IF fits = {} THEN 0 ELSE CHOOSE k \in fits : \A j \in fits : j <= k

\* C27: truncation starts with a budget of max_tokens minus the token count
\* of the protected messages and walks the conversation from newest to
\* oldest; a message is kept exactly when its own cost (role + content + 3)
\* is <= the remaining budget, which then decreases by that cost, and the
\* walk stops at the first message that does not fit (the token count of no
\* protected message taken as 0 or as 3)
C27_WalkByMessageCost ==
    (BuildDone /\ Built.truncated) =>
        \E protected_tokens \in {count_messages(ExpectedProtected),
                                 ExpectedCount(ExpectedProtected)} :
            Built.messages =
                ExpectedProtected
                    \o Suffix(ExpectedConversation,
                              FittingRecent(ExpectedConversation,
                                            config.max_tokens - protected_tokens))

\* the leading system messages of a list, two at most
LeadingSystem(messages) ==
    LET n == IF messages = <<>> \/ messages[1].role # RoleSystem THEN 0
             ELSE IF Len(messages) = 1 \/ messages[2].role # RoleSystem THEN 1
             ELSE 2
    IN  SubSeq(messages, 1, n)

AfterLeadingSystem(messages) ==
    SubSeq(messages, Len(LeadingSystem(messages)) + 1, Len(messages))

\* C28: the protected messages of truncation are exactly the leading run of
\* system-role messages of the assembled list, at most 2 of them; a
\* system-role message after a non-system message is conversation, and
\* the conversation keeps its order: a truncated result is the leading
\* system messages followed by the most recent of the rest
C28_ProtectedLeadingRun ==
    (BuildDone /\ Built.truncated) =>
        \E k \in 0..Len(AfterLeadingSystem(ExpectedAssembled)) :
            Built.messages =
                LeadingSystem(ExpectedAssembled)
                    \o Suffix(AfterLeadingSystem(ExpectedAssembled), k)

\* ------------------------------------------------------------------------
\* What build recalls from the knowledge store
\* ------------------------------------------------------------------------
\* a store of three entries that all hold the word a
RecallDb ==
    InsertInto(InsertInto(InsertInto(EmptyDb,
        MemoryEntry("p1", <<"a">>, <<"a">>, <<>>)),
        MemoryEntry("p1", <<"b">>, <<"a", " ", "b">>, <<>>)),
        MemoryEntry("p1", <<"c">>, <<"b", " ", "a">>, <<>>))

RecallConfigs ==
    [max_tokens : {8, MaxBudget}, system_prompt : {<<>>, <<"a">>},
     memory_max_results : {2, DefaultMaxResults}, memory_min_score : {-1, 0}]

InitRecall ==
    /\ issued = RecallDb.seq
    /\ memories = RecallDb.rows
    /\ memories_fts = RecallDb.fts
    /\ mem_seq = RecallDb.seq
    /\ memConn = TRUE
    /\ memOp = NoMemOp
    /\ files = [p \in Paths |-> [exists |-> FALSE, text |-> <<>>]]
    /\ session = <<>>
    /\ config \in RecallConfigs
    /\ hasMemory \in BOOLEAN
    /\ built = NoBuild
    /\ default_counter = NoCounter
    /\ InitSessionDb
    /\ NoCallers

SpecRecall == InitRecall /\ [][NextBuilder]_vars

\* the results a search for the build's query may return, by rowid and
\* score: the matching rows in order of score, cut at memory_max_results
SearchOutcomes ==
    LET q == SearchQuery(built.query, config.memory_max_results, "")
    IN  {search(memories, memories_fts, memConn, q, score).results :
            score \in ScoreFunctions(QueryMatches(memories, memories_fts, q))}

PassingScore(results) ==
    LET idx == {i \in DOMAIN results : results[i].score >= config.memory_min_score}
    IN  [k \in 1..Cardinality(idx) |->
            results[CHOOSE i \in idx : Cardinality({j \in idx : j < i}) = k - 1]]

\* the text of the message that lists results as numbered [section] snippet
ListingOf(results) ==
    <<"Relevant", " information", ":", "\n">>
        \o JoinLines(Flatten([i \in 1..Len(results) |->
              << <<ToString(i), ".", " ", "[">> \o results[i].entry.section \o <<"]">>,
                 <<" ", " ", " ">> \o results[i].snippet,
                 <<>> >>]))

IsListing(m) ==
    /\ m.role = RoleSystem
    /\ Len(m.content) >= 4
    /\ SubSeq(m.content, 1, 4) = <<"Relevant", " information", ":", "\n">>

\* C29: with a query and a store, memory_results is exactly the sequence of
\* the search results (limit = memory_max_results) whose score is >=
\* memory_min_score, in search order, and exactly one system message
\* listing them stands directly after the system prompt and before all
\* history iff memory_results is non-empty; with no query or no store no
\* search is run and memory_results is empty
C29_MemoryResults ==
    BuildDone =>
        LET at == IF config.system_prompt # <<>> THEN 2 ELSE 1
            listings == {i \in DOMAIN Built.messages : IsListing(Built.messages[i])}
        IN  /\ (hasMemory /\ built.query # <<>>) =>
                   \E results \in SearchOutcomes :
                       Built.memory_results = PassingScore(results)
            /\ ~(hasMemory /\ built.query # <<>>) => Built.memory_results = <<>>
            /\ Len(Built.memory_results) <= config.memory_max_results
            /\ Built.memory_results = <<>> => listings = {}
            /\ Built.memory_results # <<>> =>
                   /\ listings = {at}
                   /\ Built.messages[at].content = ListingOf(Built.memory_results)
                   /\ at = 2 => Built.messages[1] = Message(RoleSystem, config.system_prompt)

\* a search of three matches cut to two, one of them below the minimum
\* score: one result listed between the system prompt and the history
C29_Witness ==
    /\ BuildDone /\ hasMemory /\ built.query = <<"a">>
    /\ config.memory_max_results = 2 /\ config.system_prompt # <<>>
    /\ Len(Built.memory_results) = 1
    /\ Built.memory_results[1].score = -1
    /\ \E results \in SearchOutcomes :
          /\ Len(results) = 2 /\ results[1].score = -2
          /\ Built.memory_results = PassingScore(results)
    /\ session # <<>>
    /\ Len(Built.messages) >= 3
    /\ IsListing(Built.messages[2])

\* ------------------------------------------------------------------------
\* The message table against the session table
\* ------------------------------------------------------------------------
\* C31: after any sequence of save_session, delete_session and clear_all,
\* every row of the message table belongs to a session of the session
\* table: deleting a session or clearing all sessions leaves no message
\* row of it behind
C31_NoOrphanMessages ==
    \A i \in DOMAIN messages_tbl : InStore(sessions_tbl, messages_tbl[i].session_id)

\* ------------------------------------------------------------------------
\* The module-level counting functions and the model name of a call
\* ------------------------------------------------------------------------
\* the encoding profile a model name selects, by keyword
ProfileOf(model) ==
    LET has(kws) == \E i \in 1..Len(model) : Lower(<<model[i]>>)[1] \in kws
    IN  CASE has({"gpt-4", "gpt-3.5-turbo"}) -> EncCl100k
          [] has({"davinci", "curie"})       -> EncP50k
          [] has({"gpt-2"})                  -> EncR50k
          [] OTHER                           -> EncCl100k

\* the tokens of a text under a profile
TokensUnder(profile, text) ==
    Len(text) + IF profile = EncCl100k THEN 0
                ELSE Cardinality({i \in 1..Len(text) : text[i] \in WideChars})

RECURSIVE MessagesUnder(_, _)
MessagesUnder(profile, messages) ==
    IF messages = <<>> THEN 0
    ELSE TokensPerMessage + TokensUnder(profile, Head(messages).role)
         + TokensUnder(profile, Head(messages).content)
         + (IF Len(messages) = 1 THEN ReplyPriming
            ELSE MessagesUnder(profile, Tail(messages)))

\* C32: the module-level count_tokens(text, model) and count_messages(
\* messages, model) return the count under the encoding profile that the
\* model name of this call selects, whatever earlier calls used
C32_CountByCallModel ==
    /\ built.op = "count_tokens"
       => built.result.token_count = TokensUnder(ProfileOf(built.model), built.query)
    /\ built.op = "module_count_messages"
       => built.result.token_count = MessagesUnder(ProfileOf(built.model), session)

\* ------------------------------------------------------------------------
\* What a reindex leaves alone
\* ------------------------------------------------------------------------
\* the rows of the full-text index that belong to a row of the table
IndexRowsOf(fts, id) == {f \in fts : f.rowid = id}

MetaObject == {<< <<"k">>, [t |-> "object", v |-> <<>>] >>}

Serializable(meta) == \A kv \in meta : kv[2].t \in {"int", "str"}

\* the position of the first message json.dumps raises on, 0 if none
FirstUnserializable(messages) ==
    IF \A i \in DOMAIN messages : Serializable(messages[i].metadata) THEN 0
    ELSE CHOOSE i \in DOMAIN messages :
             /\ ~Serializable(messages[i].metadata)
             /\ \A j \in 1..(i - 1) : Serializable(messages[j].metadata)

\* SessionDatabase.save_session on the tables as the connection sees them:
\* the tables afterwards as the connection sees them, and whether the
\* commit at the end was reached
save_session_raising(view, conn, s, stamps) ==
    LET bad == FirstUnserializable(s.messages)
    IN  IF ~conn THEN [status |-> "NotConnected", db |-> view, committed |-> FALSE]
        ELSE IF ~Serializable(s.metadata)
        THEN [status |-> "TypeError", db |-> view, committed |-> FALSE]
        ELSE IF bad = 0
        THEN [status |-> "ok", db |-> save_session(view, conn, s, stamps).db,
              committed |-> TRUE]
        ELSE [status |-> "TypeError",
              db |-> [sessions |-> {r \in view.sessions : r.id # s.id}
                                      \cup {[id |-> s.id, metadata |-> json_dumps(s.metadata)]},
                      messages |-> SelectSeq(view.messages, LAMBDA r : r.session_id # s.id)
                                      \o NewMessageRows(s.id, SubSeq(s.messages, 1, bad - 1),
                                                        view.seq, stamps),
                      seq |-> view.seq + bad - 1],
              committed |-> FALSE]

\* the tables as the writer's connection sees them: the committed tables
\* and the statements of its open transaction
ConnView ==
    IF txn.pc = "failed"
    THEN [sessions |-> txn.sessions, messages |-> txn.messages, seq |-> txn.seq]
    ELSE CurrentSessDb

FailingMessages ==
    {[role |-> RoleUser, content |-> <<"a">>, metadata |-> EmptyMeta],
     [role |-> RoleAssistant, content |-> <<"b">>, metadata |-> MetaInt],
     [role |-> RoleUser, content |-> <<"b">>, metadata |-> MetaObject]}

FailingSessions ==
    [id : SessionIds, messages : SeqsUpTo(FailingMessages, MaxSessMsgs),
     metadata : {EmptyMeta}]

\* save_session on the connection, after which the connection holds the
\* statements of a save that raised in its open transaction
SaveOnConn(s) ==
    LET stamps == [i \in 1..Len(s.messages) |-> clock]
        r      == save_session_raising(ConnView, sessConn, s, stamps)
    IN  /\ txn.pc \in {"idle", "failed"}
        /\ r.db.seq <= MaxRowId
        /\ IF r.committed
           THEN /\ SessStored(r.db)
                /\ txn' = NoTxn
           ELSE /\ UNCHANGED <<sessions_tbl, messages_tbl, msg_seq>>
                /\ txn' = IF r.db = CurrentSessDb THEN NoTxn
                          ELSE [pc |-> "failed", session |-> s, sessions |-> r.db.sessions,
                                messages |-> r.db.messages, seq |-> r.db.seq, left |-> <<>>]
        /\ sessOp' = SessRecord("save", r.status, s.id, FALSE, <<>>, FALSE)
        /\ UNCHANGED <<sessConn, clock, lastSaved, savedOnConn, reader>>
        /\ UNCHANGED memVars
        /\ UNCHANGED buildVars
        /\ UNCHANGED agentVars

\* load_session on the same connection
LoadOnConn(id) ==
    LET r == load_session(ConnView, sessConn, id)
    IN  /\ txn.pc \in {"idle", "failed"}
        /\ sessOp' = SessRecord("load", r.status, id, r.found, r.messages, FALSE)
        /\ UNCHANGED <<sessions_tbl, messages_tbl, msg_seq, sessConn, clock,
                       lastSaved, savedOnConn>>
        /\ UNCHANGED memVars
        /\ UNCHANGED buildVars
        /\ UNCHANGED agentVars
        /\ UNCHANGED readVars

NextFailingSave ==
    \/ \E s \in FailingSessions : SaveOnConn(s)
    \/ \E id \in SessionIds : LoadOnConn(id)

SpecFailingSave == InitSession /\ [][NextFailingSave]_vars

\* what the committed tables hold for a session id
CommittedLoad(session_id) == load_session(CurrentSessDb, TRUE, session_id)

\* C34: after a save_session that failed part-way, the stored session keeps
\* its previous message list: a later load on the same connection returns
\* it, and a later committed operation on the connection (a save of another
\* session) leaves it as the stored state of the session
C34_FailedSaveKeepsStored ==
    /\ []((txn.pc = "failed" /\ sessOp.op = "load" /\ sessOp.id = txn.session.id) =>
             /\ sessOp.found = CommittedLoad(sessOp.id).found
             /\ sessOp.messages = CommittedLoad(sessOp.id).messages)
    /\ [][(txn.pc = "failed" /\ txn'.pc = "idle" /\ sessOp'.id # txn.session.id) =>
             load_session(CurrentSessDb', TRUE, txn.session.id)
                 = CommittedLoad(txn.session.id)]_vars

\* C35: a reindex that fails because the file cannot be read
\* (FileNotFoundError) leaves the store unchanged: the entries indexed from
\* the path before are still in the table and in the full-text index
C35_FailedReindexKeepsStore ==
    [][(memOp'.op = "reindex" /\ memOp'.status = "FileNotFoundError") =>
          /\ memories' = memories
          /\ memories_fts' = memories_fts]_vars

\* C36: create_session never removes messages of an existing session: when a
\* session with the id exists (in the cache or in the store), the messages
\* it held before create_session(session_id = id) are still held for the id
\* afterwards, in the cache and in the store, and there is one session per id
C36_CreateKeepsMessages ==
    [][(mgrOp'.op = "create_session" /\ mgrOp'.status = "ok") =>
          /\ InCache(sessions, mgrOp'.id) =>
                /\ InCache(sessions', mgrOp'.id)
                /\ Cached(sessions', mgrOp'.id).messages
                       = Cached(sessions, mgrOp'.id).messages
          /\ (mgrDb /\ mgrOp'.id \in StoredIds) =>
                load_session(CurrentSessDb', TRUE, mgrOp'.id).messages = MessagesOf(mgrOp'.id)
          /\ Cardinality({c \in sessions' : c.id = mgrOp'.id}) = 1]_vars

\* C37: in every chat call the message list passed to the LLM has the
\* current user message as its last element, for every max_tokens, system
\* prompt and history length
C37_UserMessageLast ==
    (chatOp.op = "chat" /\ chatOp.built) =>
        /\ chatOp.sent # <<>>
        /\ chatOp.sent[Len(chatOp.sent)] = Message(RoleUser, chatOp.user_message)

\* ContextConfig.memory_min_score as the dataclass sets it
DefaultMinScore == 0

\* C38: with the default memory_min_score, whenever the search for the query
\* returns at least one result, build keeps at least one memory result and
\* adds the memory system message
C38_DefaultKeepsResults ==
    (BuildDone /\ hasMemory /\ built.query # <<>>
        /\ config.memory_min_score = DefaultMinScore
        /\ \A results \in SearchOutcomes : results # <<>>) =>
        /\ Built.memory_results # <<>>
        /\ \E i \in DOMAIN Built.messages : IsListing(Built.messages[i])

\* C39: build never modifies its inputs: the session's message list, the
\* config and the contents of the knowledge store are the same after build
\* as before it, whether or not truncation happened
C39_BuildKeepsInputs ==
    [][built'.op = "build" =>
          /\ session' = session
          /\ config' = config
          /\ memories' = memories
          /\ memories_fts' = memories_fts
          /\ mem_seq' = mem_seq]_vars

\* a build that truncated: it returned fewer messages than the session
\* holds, from a store whose results it listed
C39_Witness ==
    /\ BuildDone /\ Built.truncated
    /\ Len(Built.messages) < Len(session)
    /\ hasMemory /\ built.query # <<>>
    /\ memories # <<>>

\* ------------------------------------------------------------------------
\* whatsapp_bot/commands and discord_bot/commands: CommandHandler
\* ------------------------------------------------------------------------
BotRecord(op, user_id, chatted, session_id) ==
    [op |-> op, user_id |-> user_id, chatted |-> chatted, session_id |-> session_id]

\* _handle_clear that answers and keeps the user's entry
HandleClear_kept(user_id) ==
    /\ botOp' = BotRecord("clear", user_id, FALSE, user_sessions[user_id])
    /\ UNCHANGED <<sessions, mgrDb, uuids, mgrOp, chatOp, user_sessions>>
    /\ UNCHANGED memVars
    /\ UNCHANGED buildVars
    /\ UNCHANGED sessVars
    /\ UNCHANGED readVars

\* CommandHandler._handle_clear
HandleClear(user_id) ==
    /\ user_sessions' = [user_sessions EXCEPT ![user_id] = ""]
    /\ botOp' = BotRecord("clear", user_id, FALSE, user_sessions[user_id])
    /\ UNCHANGED <<sessions, mgrDb, uuids, mgrOp, chatOp>>
    /\ UNCHANGED memVars
    /\ UNCHANGED buildVars
    /\ UNCHANGED sessVars
    /\ UNCHANGED readVars

\* CommandHandler._handle_chat under handle_command, which catches what
\* agent.chat raises; message is " ".join(args), empty for no args
HandleChat(user_id, message, llm) ==
    IF message = <<>>
    THEN /\ botOp' = BotRecord("chat", user_id, FALSE, "")
         /\ UNCHANGED <<sessions, mgrDb, uuids, mgrOp, chatOp, user_sessions>>
         /\ UNCHANGED memVars
         /\ UNCHANGED buildVars
         /\ UNCHANGED sessVars
         /\ UNCHANGED readVars
    ELSE /\ ChatCall(message, user_sessions[user_id], TRUE, llm, MaxBotUuids, MaxBotMsgs)
         /\ user_sessions' = IF chatOp'.status = "ok"
                             THEN [user_sessions EXCEPT ![user_id] = chatOp'.session_id]
                             ELSE user_sessions
         /\ botOp' = BotRecord("chat", user_id, TRUE, chatOp'.session_id)

BotMessages == {<<>>, <<"a">>, <<"*">>}

InitBot ==
    /\ InitAgent
    /\ config.max_tokens = MaxBudget

NextBot ==
    \/ \E user_id \in Users, message \in BotMessages, llm \in LLMOutcomes :
          HandleChat(user_id, message, llm)
    \/ \E user_id \in Users : HandleClear(user_id)

SpecBot == InitBot /\ [][NextBot]_vars

====
